---- MODULE Spec2Model ----
(***************************************************************************)
(* Model of the narri identity / signature / voucher core.                 *)
(*                                                                         *)
(*  - did.ts        (src/unnamed/part_002): did:key derivation/extraction  *)
(*  - signature.ts  (src/unnamed/part_001): JWS sign / verify              *)
(*  - useDankWallet (src/unnamed/part_000): createVoucher, transferVoucher,*)
(*                  validateVoucher and the per-process validation cache   *)
(*  - CollaboratorsModal.tsx: verifyAttestationSignature / verifyAll       *)
(*  - UserDocument schema: createUserDocument and the trustGiven /        *)
(*                  trustReceived helpers                                  *)
(*  - UserListItem  (src/unnamed/part_003): the trust badges of a row      *)
(*  - useOpinionGraph.ts: assumptions, votes, tags and edit entries of    *)
(*                  the shared OpinionGraphDoc                             *)
(*  - QRScannerModal: generateQRCode / parseQRCode and the scan callback   *)
(*  - AppShell.tsx: document loading, retries and the error screen         *)
(*                                                                         *)
(* One wallet document is shared by all users (the CRDT layer delivers     *)
(* every change to every replica); every user runs the hook in a process   *)
(* of their own, so the validation cache is per user.  An async function   *)
(* is split at its awaits: the part before the first await is the Begin    *)
(* action, the part after the last one the Commit / Finish action.         *)
(***************************************************************************)
EXTENDS Integers, Sequences, FiniteSets, TLC

(***************************************************************************)
(* Bounds                                                                  *)
(***************************************************************************)
MaxVouchers == 1
MaxTransfers == 2
MaxTicks == 1
MaxInflight == 2
KeyLen == 1
MaxGraphIds == 4
MaxGraphInflight == 2

(***************************************************************************)
(* Program constants                                                       *)
(***************************************************************************)
CACHE_TTL == 5 * 60 * 1000

ED25519_MULTICODEC_PREFIX == <<237, 1>>

(***************************************************************************)
(* Identities.  alice and bob hold real did:key identities; carol holds a  *)
(* legacy (Phase 0) identity whose DID is of the form                      *)
(* did:key:<timestamp>-<random> and embeds no key.                         *)
(***************************************************************************)
Users == {"alice", "bob", "carol"}

KeyByte == [u \in Users |->
              CASE u = "alice" -> 11 [] u = "bob" -> 22 [] OTHER -> 33]

\* The PKCS#8 private key of a user (Keypair.privateKey).
PrivateKey(u) == [pkcs8 |-> KeyByte[u]]

\* The raw Ed25519 public key that belongs to a private key.
PublicOf(priv) == [i \in 1..KeyLen |-> priv.pkcs8]

\* base64Encode / base64Decode (did.ts): a string wrapping the bytes.
base64Encode(data) == [b64 |-> data]

base64Decode(base64) == base64.b64

\* A did:key string: its first nine characters and the bytes its multibase
\* body (base58btc, an external codec) decodes to.
deriveDidFromPublicKey(publicKey) ==
    [prefix |-> "did:key:z", body |-> ED25519_MULTICODEC_PREFIX \o publicKey]

LegacyDid == [prefix |-> "did:key:1", body |-> <<>>]

\* A character of a DID's body that is not in the base58 alphabet ('-'),
\* where the body of a well-formed DID has a byte.
Dash == -1

includesDash(did) == \E i \in 1..Len(did.body) : did.body[i] = Dash

\* Variants of extractPublicKeyFromDid with a plausible slip each.
extractPublicKeyFromDid_KeepsPrefixByte(did) ==
    IF did.prefix # "did:key:z" \/ includesDash(did)
    THEN [ok |-> FALSE, key |-> <<>>]
    ELSE IF Len(did.body) < 2 \/ did.body[1] # 237 \/ did.body[2] # 1
         THEN [ok |-> FALSE, key |-> <<>>]
         ELSE [ok |-> TRUE, key |-> SubSeq(did.body, 2, Len(did.body))]

extractPublicKeyFromDid_FirstByteOnly(did) ==
    IF did.prefix # "did:key:z" \/ includesDash(did)
    THEN [ok |-> FALSE, key |-> <<>>]
    ELSE IF Len(did.body) < 2 \/ did.body[1] # 237
         THEN [ok |-> FALSE, key |-> <<>>]
         ELSE [ok |-> TRUE, key |-> SubSeq(did.body, 3, Len(did.body))]

\* extractPublicKeyFromDid: ok = FALSE stands for a throw (of the format
\* check, of base58btc.decode or of the multicodec check).
extractPublicKeyFromDid(did) ==
    IF did.prefix # "did:key:z"
    THEN [ok |-> FALSE, key |-> <<>>]
    ELSE IF includesDash(did)
    THEN [ok |-> FALSE, key |-> <<>>]
    ELSE IF Len(did.body) < 2 \/ did.body[1] # 237 \/ did.body[2] # 1
         THEN [ok |-> FALSE, key |-> <<>>]
         ELSE [ok |-> TRUE, key |-> SubSeq(did.body, 3, Len(did.body))]

\* isFakeDid: not did:key, or no 'z' after it, or a '-' in the string.
isFakeDid(did) ==
    IF did.prefix \notin {"did:key:z", "did:key:1"} THEN TRUE
    ELSE IF did.prefix # "did:key:z" THEN TRUE
    ELSE includesDash(did)

isValidDid(did) ==
    IF isFakeDid(did) THEN FALSE
    ELSE extractPublicKeyFromDid(did).ok

UserDid(u) ==
    IF u = "carol" THEN LegacyDid
    ELSE deriveDidFromPublicKey(PublicOf(PrivateKey(u)))

AllDids == {UserDid(u) : u \in Users}

(***************************************************************************)
(* JWS (signature.ts)                                                      *)
(***************************************************************************)
base64urlEncode(data) == [b64u |-> data]

base64urlDecode(s) == s.b64u

\* Ed25519 as an ideal signature scheme: a signature names the public key
\* of the private key that made it and the message it was made over.
Ed25519Sign(priv, msg) == [signer |-> PublicOf(priv), msg |-> msg]

Ed25519Verify(pub, sig, msg) == sig.signer = pub /\ sig.msg = msg

\* JSON values that JSON.stringify does not write as they are.  They occur
\* only in the fields named by JsonFields; every other field of the model
\* holds a string or a finite integer, which JSON represents exactly.
JsonFields == {"notes"}

JUndefined == [jsonType |-> "undefined"]

JNaN == [jsonType |-> "NaN"]

JNull == [jsonType |-> "null"]

\* JSON.stringify of an object: a field whose value is undefined is left
\* out and NaN is written as null.
JSONstringify(value) ==
    [json |-> [f \in {g \in DOMAIN value :
                        ~(g \in JsonFields /\ value[g] = JUndefined)} |->
                 IF f \in JsonFields /\ value[f] = JNaN
                 THEN JNull ELSE value[f]]]

JSONparse(text) == text.json

\* A compact JWS is the sequence of its '.'-separated segments.
signJws(payload, priv) ==
    LET header == [alg |-> "EdDSA", typ |-> "JWT"]
        signingInput == <<base64urlEncode(JSONstringify(header)),
                          base64urlEncode(JSONstringify(payload))>>
    IN  signingInput \o <<base64urlEncode(Ed25519Sign(priv, signingInput))>>

\* Variant of verifyJws that accepts more than three segments.
verifyJws_AtLeastThree(jws, publicKeyBase64) ==
    IF Len(jws) < 3
    THEN [valid |-> FALSE, error |-> "Invalid JWS format"]
    ELSE LET header == JSONparse(base64urlDecode(jws[1]))
             signature == base64urlDecode(jws[3])
             signingInput == <<jws[1], jws[2]>>
             publicKeyRaw == base64Decode(publicKeyBase64)
         IN  IF header.alg # "EdDSA"
             THEN [valid |-> FALSE, error |-> "Unsupported algorithm"]
             ELSE IF Len(publicKeyRaw) # KeyLen
                  THEN [valid |-> FALSE, error |-> "Verification failed"]
                  ELSE [valid |-> Ed25519Verify(publicKeyRaw, signature,
                                                signingInput),
                        payload |-> JSONparse(base64urlDecode(jws[2])),
                        error |-> ""]

verifyJws(jws, publicKeyBase64) ==
    IF Len(jws) # 3
    THEN [valid |-> FALSE, error |-> "Invalid JWS format"]
    ELSE LET header == JSONparse(base64urlDecode(jws[1]))
             signature == base64urlDecode(jws[3])
             signingInput == <<jws[1], jws[2]>>
             publicKeyRaw == base64Decode(publicKeyBase64)
         IN  IF header.alg # "EdDSA"
             THEN [valid |-> FALSE, error |-> "Unsupported algorithm"]
             ELSE IF Len(publicKeyRaw) # KeyLen
                  THEN [valid |-> FALSE, error |-> "Verification failed"]
                  ELSE [valid |-> Ed25519Verify(publicKeyRaw, signature,
                                                signingInput),
                        payload |-> JSONparse(base64urlDecode(jws[2])),
                        error |-> ""]

(***************************************************************************)
(* State                                                                   *)
(***************************************************************************)
VARIABLES
    vouchers,          \* doc.data.vouchers: voucher id -> Voucher
    identities,        \* doc.identities: DID -> IdentityProfile
    now,               \* Date.now()
    ticks,             \* number of clock advances so far (bounds the run)
    nextId,            \* source of generateId()
    calls,             \* in-flight async calls, one per slot
    validationCache,   \* per process (user): voucher id -> ValidationResult
    returned,          \* what validateVoucher returned in the last step
    thrown,            \* what transferVoucher threw in the last step
    userDocs,          \* user -> UserDocument (trustGiven, trustReceived)
    signatureStatuses, \* CollaboratorsModal state: DID -> statuses
    graph,             \* the OpinionGraphDoc shared by the users
    graphNextId,       \* source of generateId() for the opinion graph
    graphCalls,        \* in-flight createAssumption / setVote calls
    shell              \* AppShell: component state and its environment

walletVars == <<vouchers, identities, now, ticks, nextId, calls,
                validationCache, returned, thrown>>

trustVars == <<userDocs, signatureStatuses>>

\* The wallet's state without the observations of the last step.
walletState == <<vouchers, identities, now, ticks, nextId, calls,
                 validationCache>>

appVars == <<graph, graphNextId, graphCalls, shell>>

vars == <<walletVars, trustVars, appVars>>

Idle == [op |-> "idle"]

NoReturn == [op |-> "none"]

NoThrow == [op |-> "none"]

\* An absent optional timestamp (expiresAt, redeemedAt): 0 is falsy in the
\* source, which leaves the field out in that case.
NoTime == 0

\* An absent or empty publicKey of a profile (both are falsy).
NoKey == base64Encode(<<>>)

Amounts == {100}

Units == {"coffee"}

ExpiryChoices == {NoTime, 2}

\* The clock advances in jumps of the cache's time to live: an entry made
\* just before a jump is exactly CACHE_TTL old after it.
TickSteps == {CACHE_TTL}

\* The processes that validate vouchers.
Validators == {"alice"}

\* A call that starts takes the first free slot.
FirstIdle(s) ==
    /\ calls[s].op = "idle"
    /\ \A r \in 1..(s - 1) : calls[r].op # "idle"

NoSuchVoucher == 0

Quiet == returned' = NoReturn /\ thrown' = NoThrow

(***************************************************************************)
(* dank-wallet schema helpers                                              *)
(***************************************************************************)
\* getVoucherStatus: the derived status of a voucher at a time.
getVoucherStatus(voucher, time) ==
    IF voucher.status = "redeemed" THEN "redeemed"
    ELSE IF voucher.expiresAt # NoTime /\ voucher.expiresAt < time
         THEN "expired"
         ELSE voucher.status

\* The payload the issuer signs; expiresAt is left out when not set.
IssuerSignaturePayload(id, issuerId, amount, unit, createdAt, expiresAt, initialRecipientId) ==
    IF expiresAt # NoTime
    THEN [id |-> id, issuerId |-> issuerId, amount |-> amount, unit |-> unit,
          createdAt |-> createdAt, expiresAt |-> expiresAt,
          initialRecipientId |-> initialRecipientId]
    ELSE [id |-> id, issuerId |-> issuerId, amount |-> amount, unit |-> unit,
          createdAt |-> createdAt, initialRecipientId |-> initialRecipientId]

TransferSignaturePayload(voucherId, fromId, toId, timestamp, previousSignature) ==
    [voucherId |-> voucherId, fromId |-> fromId, toId |-> toId,
     timestamp |-> timestamp, previousSignature |-> previousSignature]

(***************************************************************************)
(* Init: an empty wallet document created by alice (createEmptyDoc stores  *)
(* the creator's profile), no call in flight, empty caches.                *)
(***************************************************************************)
EmptyMap == [x \in {} |-> 0]

InitWallet ==
    /\ vouchers = EmptyMap
    /\ identities = [d \in AllDids |->
          [publicKey |-> IF d = UserDid("alice")
                         THEN base64Encode(PublicOf(PrivateKey("alice")))
                         ELSE NoKey]]
    /\ now = 1
    /\ ticks = 0
    /\ nextId = 1
    /\ calls = [s \in 1..MaxInflight |-> Idle]
    /\ validationCache = [u \in Users |-> EmptyMap]
    /\ returned = NoReturn
    /\ thrown = NoThrow

(***************************************************************************)
(* createVoucher                                                           *)
(***************************************************************************)
NewVoucher(id, issuerId, recipientId, amount, unit, createdAt, expiresAt, priv) ==
    LET issuerSignature ==
            signJws(IssuerSignaturePayload(id, issuerId, amount, unit,
                        createdAt, expiresAt, recipientId), priv)
        redeem == recipientId = issuerId
    IN  [id |-> id, issuerId |-> issuerId, amount |-> amount, unit |-> unit,
         createdAt |-> createdAt, expiresAt |-> expiresAt,
         initialRecipientId |-> recipientId,
         currentHolderId |-> recipientId,
         status |-> IF redeem THEN "redeemed" ELSE "active",
         redeemedAt |-> IF redeem THEN createdAt ELSE NoTime,
         issuerSignature |-> issuerSignature,
         transfers |-> <<>>]

createVoucher(u, recipientId, amount, unit, expiresAt) ==
    /\ Cardinality(DOMAIN vouchers) < MaxVouchers
    /\ LET id == nextId
           voucher == NewVoucher(id, UserDid(u), recipientId, amount, unit,
                                 now, expiresAt, PrivateKey(u))
       IN  vouchers' = [i \in DOMAIN vouchers \cup {id} |->
                           IF i = id THEN voucher ELSE vouchers[i]]
    /\ nextId' = nextId + 1
    /\ Quiet
    /\ UNCHANGED <<identities, now, ticks, calls, validationCache>>
    /\ UNCHANGED <<trustVars, appVars>>

(***************************************************************************)
(* transferVoucher                                                         *)
(***************************************************************************)
TransfersInFlight(voucherId) ==
    Cardinality({s \in 1..MaxInflight :
        calls[s].op = "transfer" /\ calls[s].voucherId = voucherId})

\* The checks of transferVoucher with the status checked before the holder.
TransferError_StatusFirst(u, voucherId) ==
    IF voucherId \notin DOMAIN vouchers THEN "Voucher not found"
    ELSE IF getVoucherStatus(vouchers[voucherId], now) # "active"
         THEN "Voucher is not active"
         ELSE IF vouchers[voucherId].currentHolderId # UserDid(u)
              THEN "You are not the current holder of this voucher"
              ELSE ""

\* The error transferVoucher throws before its first await, "" if none.
\* (Every user holds a private key and the document is loaded.)
TransferError(u, voucherId) ==
    IF voucherId \notin DOMAIN vouchers THEN "Voucher not found"
    ELSE IF vouchers[voucherId].currentHolderId # UserDid(u)
         THEN "You are not the current holder of this voucher"
         ELSE IF getVoucherStatus(vouchers[voucherId], now) # "active"
              THEN "Voucher is not active"
              ELSE ""

\* The Transfer record built and signed from the snapshot of the voucher.
NewTransfer(transferId, voucher, fromId, toId, timestamp, priv) ==
    LET previousSignature ==
            IF Len(voucher.transfers) > 0
            THEN voucher.transfers[Len(voucher.transfers)].signature
            ELSE voucher.issuerSignature
        signature ==
            signJws(TransferSignaturePayload(voucher.id, fromId, toId,
                        timestamp, previousSignature), priv)
    IN  [id |-> transferId, voucherId |-> voucher.id, fromId |-> fromId,
         toId |-> toId, timestamp |-> timestamp, signature |-> signature]

\* Lines 170-191: a check fails and the call throws.
transferVoucherThrow(u, voucherId) ==
    /\ TransferError(u, voucherId) # ""
    /\ thrown' = [op |-> "transferVoucher", user |-> u,
                  voucherId |-> voucherId,
                  error |-> TransferError(u, voucherId)]
    /\ returned' = NoReturn
    /\ UNCHANGED <<vouchers, identities, now, ticks, nextId, calls,
                   validationCache>>
    /\ UNCHANGED <<trustVars, appVars>>

\* Lines 170-212: the checks pass on the snapshot, the transfer is built
\* and the call suspends in signJws.
transferVoucherBegin(s, u, voucherId, toId) ==
    /\ FirstIdle(s)
    /\ TransferError(u, voucherId) = ""
    /\ Len(vouchers[voucherId].transfers) + TransfersInFlight(voucherId)
          < MaxTransfers
    /\ calls' = [calls EXCEPT ![s] =
          [op |-> "transfer", user |-> u, voucherId |-> voucherId,
           toId |-> toId,
           transfer |-> NewTransfer(nextId, vouchers[voucherId], UserDid(u),
                                    toId, now, PrivateKey(u))]]
    /\ nextId' = nextId + 1
    /\ Quiet
    /\ UNCHANGED <<vouchers, identities, now, ticks, validationCache>>
    /\ UNCHANGED <<trustVars, appVars>>

\* Variants of the change callback with a plausible slip each.
ApplyTransfer_KeepsHolder(v, transfer, toId) ==
    [v EXCEPT !.transfers = Append(@, transfer),
              !.status = IF toId = v.issuerId THEN "redeemed" ELSE @,
              !.redeemedAt = IF toId = v.issuerId
                             THEN transfer.timestamp ELSE @]

ApplyTransfer_RedeemsOnHolder(v, transfer, toId) ==
    [v EXCEPT !.transfers = Append(@, transfer),
              !.currentHolderId = toId,
              !.status = IF toId = v.currentHolderId THEN "redeemed" ELSE @,
              !.redeemedAt = IF toId = v.currentHolderId
                             THEN transfer.timestamp ELSE @]

ApplyTransfer_Overwrites(v, transfer, toId) ==
    [v EXCEPT !.transfers = <<transfer>>,
              !.currentHolderId = toId,
              !.status = IF toId = v.issuerId THEN "redeemed" ELSE @,
              !.redeemedAt = IF toId = v.issuerId
                             THEN transfer.timestamp ELSE @]

\* The change callback of lines 233-247 applied to a voucher.
ApplyTransfer(v, transfer, toId) ==
    [v EXCEPT !.transfers = Append(@, transfer),
              !.currentHolderId = toId,
              !.status = IF toId = v.issuerId THEN "redeemed" ELSE @,
              !.redeemedAt = IF toId = v.issuerId
                             THEN transfer.timestamp ELSE @]

\* Lines 229-252: signJws has resolved; the change is applied to the
\* current document and the caller's cache entry is deleted.
transferVoucherCommit(s) ==
    /\ calls[s].op = "transfer"
    /\ LET c == calls[s]
       IN  /\ vouchers' =
                 IF c.voucherId \in DOMAIN vouchers
                 THEN [vouchers EXCEPT ![c.voucherId] =
                          ApplyTransfer(@, c.transfer, c.toId)]
                 ELSE vouchers
           /\ validationCache' = [validationCache EXCEPT ![c.user] =
                 [i \in DOMAIN @ \ {c.voucherId} |-> @[i]]]
    /\ calls' = [calls EXCEPT ![s] = Idle]
    /\ Quiet
    /\ UNCHANGED <<identities, now, ticks, nextId>>
    /\ UNCHANGED <<trustVars, appVars>>

(***************************************************************************)
(* validateVoucher                                                         *)
(***************************************************************************)
\* Lines 301-351: the issuer's status from the snapshot of the document.
\* issuerPayload is built by the source but passed to nothing.
IssuerSignatureStatus(voucher, ids) ==
    LET issuerProfile == ids[voucher.issuerId]
    IN  IF issuerProfile.publicKey = NoKey
        THEN LET pubKey == extractPublicKeyFromDid(voucher.issuerId)
             IN  IF ~pubKey.ok THEN "unknown"
                 ELSE IF verifyJws(voucher.issuerSignature,
                                   base64Encode(pubKey.key)).valid
                      THEN "valid" ELSE "invalid"
        ELSE IF verifyJws(voucher.issuerSignature,
                          issuerProfile.publicKey).valid
             THEN "valid" ELSE "invalid"

\* Lines 360-390: the status of one transfer.
TransferSignatureStatus(transfer, ids) ==
    LET senderProfile == ids[transfer.fromId]
        extracted == extractPublicKeyFromDid(transfer.fromId)
        pubKeyBase64 ==
            IF senderProfile.publicKey # NoKey THEN senderProfile.publicKey
            ELSE IF extracted.ok THEN base64Encode(extracted.key)
                 ELSE NoKey
    IN  IF pubKeyBase64 = NoKey THEN "unknown"
        ELSE IF verifyJws(transfer.signature, pubKeyBase64).valid
             THEN "valid" ELSE "invalid"

SeqContains(seq, x) == \E i \in 1..Len(seq) : seq[i] = x

\* The aggregate with the unknown case tested first.
OverallStatus_UnknownFirst(allStatuses) ==
    IF SeqContains(allStatuses, "unknown") THEN "unknown"
    ELSE IF SeqContains(allStatuses, "invalid") THEN "invalid"
         ELSE "valid"

\* Lines 395-407.
OverallStatus(allStatuses) ==
    IF SeqContains(allStatuses, "invalid") THEN "invalid"
    ELSE IF SeqContains(allStatuses, "unknown") THEN "unknown"
         ELSE "valid"

\* The validation with a chain walk that stops at the first link that is
\* not valid.
ComputeValidation_StopsAtBadLink(voucherId, voucher, ids, time) ==
    LET issuerStatus == IssuerSignatureStatus(voucher, ids)
        all == [i \in 1..Len(voucher.transfers) |->
                   TransferSignatureStatus(voucher.transfers[i], ids)]
        good == {n \in 0..Len(all) : \A i \in 1..n : all[i] = "valid"}
        stop == CHOOSE n \in good : \A m \in good : m <= n
        transferStatuses == SubSeq(all, 1, IF stop < Len(all)
                                           THEN stop + 1 ELSE stop)
    IN  [voucherId |-> voucherId,
         issuerSignatureStatus |-> issuerStatus,
         transferSignatureStatuses |-> transferStatuses,
         overallStatus |-> OverallStatus(<<issuerStatus>> \o transferStatuses),
         lastValidated |-> time,
         error |-> ""]

\* Lines 291-407: the ValidationResult computed from a snapshot.
ComputeValidation(voucherId, voucher, ids, time) ==
    LET issuerStatus == IssuerSignatureStatus(voucher, ids)
        transferStatuses ==
            [i \in 1..Len(voucher.transfers) |->
                TransferSignatureStatus(voucher.transfers[i], ids)]
    IN  [voucherId |-> voucherId,
         issuerSignatureStatus |-> issuerStatus,
         transferSignatureStatuses |-> transferStatuses,
         overallStatus |-> OverallStatus(<<issuerStatus>> \o transferStatuses),
         lastValidated |-> time,
         error |-> ""]

\* Lines 280-288.
NotFoundResult(voucherId, time) ==
    [voucherId |-> voucherId, issuerSignatureStatus |-> "unknown",
     transferSignatureStatuses |-> <<>>, overallStatus |-> "unknown",
     lastValidated |-> time, error |-> "Voucher not found"]

\* Lines 263-264 with <= in the place of <.
CacheHit_Inclusive(u, voucherId) ==
    /\ voucherId \in DOMAIN validationCache[u]
    /\ now - validationCache[u][voucherId].lastValidated <= CACHE_TTL

\* Lines 263-264: is there a cache entry young enough to be served?
CacheHit(u, voucherId) ==
    /\ voucherId \in DOMAIN validationCache[u]
    /\ now - validationCache[u][voucherId].lastValidated < CACHE_TTL

\* Lines 262-266: the cached result is returned.
validateVoucherCached(u, voucherId) ==
    /\ CacheHit(u, voucherId)
    /\ returned' = [op |-> "validateVoucher", user |-> u,
                    voucherId |-> voucherId, cached |-> TRUE,
                    result |-> validationCache[u][voucherId],
                    voucher |-> Idle, identities |-> identities]
    /\ thrown' = NoThrow
    /\ UNCHANGED <<vouchers, identities, now, ticks, nextId, calls,
                   validationCache>>
    /\ UNCHANGED <<trustVars, appVars>>

\* Lines 279-289: no such voucher in the document; nothing is cached.
validateVoucherNotFound(u, voucherId) ==
    /\ ~CacheHit(u, voucherId)
    /\ voucherId \notin DOMAIN vouchers
    /\ returned' = [op |-> "validateVoucher", user |-> u,
                    voucherId |-> voucherId, cached |-> FALSE,
                    result |-> NotFoundResult(voucherId, now),
                    voucher |-> Idle, identities |-> identities]
    /\ thrown' = NoThrow
    /\ UNCHANGED <<vouchers, identities, now, ticks, nextId, calls,
                   validationCache>>
    /\ UNCHANGED <<trustVars, appVars>>

\* Lines 262-297: cache miss; the call takes its snapshot of the document
\* and suspends in the first verifyJws.
validateVoucherBegin(s, u, voucherId) ==
    /\ FirstIdle(s)
    /\ ~CacheHit(u, voucherId)
    /\ voucherId \in DOMAIN vouchers
    /\ calls' = [calls EXCEPT ![s] =
          [op |-> "validate", user |-> u, voucherId |-> voucherId,
           voucher |-> vouchers[voucherId], identities |-> identities,
           lastValidated |-> now]]
    /\ Quiet
    /\ UNCHANGED <<vouchers, identities, now, ticks, nextId,
                   validationCache>>
    /\ UNCHANGED <<trustVars, appVars>>

\* Lines 299-420: the verifications have resolved; the result is stored in
\* the caller's cache and returned.
validateVoucherFinish(s) ==
    /\ calls[s].op = "validate"
    /\ LET c == calls[s]
           result == ComputeValidation(c.voucherId, c.voucher, c.identities,
                                       c.lastValidated)
       IN  /\ validationCache' = [validationCache EXCEPT ![c.user] =
                 [i \in DOMAIN @ \cup {c.voucherId} |->
                     IF i = c.voucherId THEN result ELSE @[i]]]
           /\ returned' = [op |-> "validateVoucher", user |-> c.user,
                           voucherId |-> c.voucherId, cached |-> FALSE,
                           result |-> result, voucher |-> c.voucher,
                           identities |-> c.identities]
    /\ thrown' = NoThrow
    /\ calls' = [calls EXCEPT ![s] = Idle]
    /\ UNCHANGED <<vouchers, identities, now, ticks, nextId>>
    /\ UNCHANGED <<trustVars, appVars>>

(***************************************************************************)
(* Other steps                                                             *)
(***************************************************************************)
\* Wall-clock time passes.
Tick(d) ==
    /\ ticks < MaxTicks
    /\ now' = now + d
    /\ ticks' = ticks + 1
    /\ Quiet
    /\ UNCHANGED <<vouchers, identities, nextId, calls, validationCache>>
    /\ UNCHANGED <<trustVars, appVars>>

(***************************************************************************)
(* Entity signatures (signature.ts)                                        *)
(***************************************************************************)
\* An absent signature of an entity (falsy).
NoSignature == <<>>

\* The entity without its signature and publicKey fields.
EntityPayload(entity) ==
    [f \in DOMAIN entity \ {"signature", "publicKey"} |-> entity[f]]

signEntity(entity, priv) == signJws(EntityPayload(entity), priv)

\* canonicalStringify: the text of an object with its keys sorted.  A key
\* whose value is undefined is written (as undefined); NaN is written as
\* null, as JSON.stringify writes it.
canonicalStringify(obj) ==
    [canonical |-> [f \in DOMAIN obj |->
                      IF f \in JsonFields /\ obj[f] = JNaN
                      THEN JNull ELSE obj[f]]]

verifyEntitySignature(entity, publicKeyBase64) ==
    IF entity.signature = NoSignature
    THEN [valid |-> FALSE, error |-> "No signature found"]
    ELSE LET result == verifyJws(entity.signature, publicKeyBase64)
         IN  IF ~result.valid
             THEN [valid |-> FALSE, error |-> result.error]
             ELSE IF canonicalStringify(EntityPayload(entity))
                        # canonicalStringify(result.payload)
                  THEN [valid |-> FALSE, error |-> "Payload mismatch"]
                  ELSE [valid |-> TRUE, error |-> ""]

(***************************************************************************)
(* Trust attestations: one UserDocument per user, and the                  *)
(* CollaboratorsModal in which alice looks at hers.                        *)
(***************************************************************************)
\* A TrustAttestation, not signed yet.
TrustAttestation(trusterDid, trusteeDid, level, time) ==
    [id |-> "trust-1", trusterDid |-> trusterDid, trusteeDid |-> trusteeDid,
     level |-> level, createdAt |-> time, updatedAt |-> time,
     signature |-> NoSignature]

SignedAttestation(attestation, priv) ==
    [attestation EXCEPT !.signature = signEntity(attestation, priv)]

\* The attestations that can be written for a truster and a trustee: not
\* signed (legacy), signed by one of the signers, or signed by one of them
\* and given another level afterwards.
Attestations(trusterDid, trusteeDid, signers) ==
    LET plain == TrustAttestation(trusterDid, trusteeDid, "verified", now)
    IN  {plain}
        \cup {SignedAttestation(plain, PrivateKey(s)) : s \in signers}
        \cup {[SignedAttestation(plain, PrivateKey(s))
                  EXCEPT !.level = "endorsed"] : s \in signers}

createUserDocument(did) ==
    [did |-> did, lastModified |-> now,
     trustGiven |-> EmptyMap, trustReceived |-> EmptyMap]

\* The user whose CollaboratorsModal is modelled.
currentUser == "alice"

InitTrust ==
    /\ userDocs = [o \in Users |-> createUserDocument(UserDid(o))]
    /\ signatureStatuses = EmptyMap

MapPut(m, k, v) == [x \in DOMAIN m \cup {k} |-> IF x = k THEN v ELSE m[x]]

MapDelete(m, k) == [x \in DOMAIN m \ {k} |-> m[x]]

\* Variants of removeTrustGiven with a plausible slip each.
removeTrustGiven_AlsoReceived(doc, trusteeDid) ==
    [doc EXCEPT !.trustGiven = MapDelete(@, trusteeDid),
                !.trustReceived = MapDelete(@, trusteeDid),
                !.lastModified = now]

removeTrustGiven_WrongMap(doc, trusteeDid) ==
    [doc EXCEPT !.trustReceived = MapDelete(@, trusteeDid),
                !.lastModified = now]

\* Variant of addTrustReceived that keys the entry by the trustee.
addTrustReceived_KeyedByTrustee(doc, attestation) ==
    [doc EXCEPT
        !.trustReceived = MapPut(@, attestation.trusteeDid, attestation),
        !.lastModified = now]

\* The four helpers of the UserDocument schema, as functions of the
\* document they are applied to inside a change callback.
addTrustGiven(doc, attestation) ==
    [doc EXCEPT !.trustGiven = MapPut(@, attestation.trusteeDid, attestation),
                !.lastModified = now]

removeTrustGiven(doc, trusteeDid) ==
    [doc EXCEPT !.trustGiven = MapDelete(@, trusteeDid),
                !.lastModified = now]

addTrustReceived(doc, attestation) ==
    [doc EXCEPT
        !.trustReceived = MapPut(@, attestation.trusterDid, attestation),
        !.lastModified = now]

removeTrustReceived(doc, trusterDid) ==
    [doc EXCEPT !.trustReceived = MapDelete(@, trusterDid),
                !.lastModified = now]

\* A change of one user's document and of nothing else.
ChangeUserDoc(o, doc) ==
    /\ userDocs' = [userDocs EXCEPT ![o] = doc]
    /\ Quiet
    /\ UNCHANGED <<walletState, signatureStatuses, appVars>>

\* Writes to the document of user o with the helpers.
writeTrustGiven(o, attestation) ==
    ChangeUserDoc(o, addTrustGiven(userDocs[o], attestation))

deleteTrustGiven(o, trusteeDid) ==
    /\ trusteeDid \in DOMAIN userDocs[o].trustGiven
    /\ ChangeUserDoc(o, removeTrustGiven(userDocs[o], trusteeDid))

writeTrustReceived(o, attestation) ==
    ChangeUserDoc(o, addTrustReceived(userDocs[o], attestation))

deleteTrustReceived(o, trusterDid) ==
    /\ trusterDid \in DOMAIN userDocs[o].trustReceived
    /\ ChangeUserDoc(o, removeTrustReceived(userDocs[o], trusterDid))

\* verifyAttestationSignature: a throw of extractPublicKeyFromDid is caught
\* and gives 'invalid'.
verifyAttestationSignature(attestation) ==
    IF attestation.signature = NoSignature THEN "missing"
    ELSE LET publicKeyBytes == extractPublicKeyFromDid(attestation.trusterDid)
         IN  IF ~publicKeyBytes.ok THEN "invalid"
             ELSE IF verifyEntitySignature(attestation,
                         base64Encode(publicKeyBytes.key)).valid
                  THEN "valid" ELSE "invalid"

NoStatus == "none"

\* The effect of CollaboratorsModal that runs while the modal is open:
\* every attestation of the user document is verified and the statuses are
\* stored per DID.
verifyAll(isOpen) ==
    /\ isOpen
    /\ LET userDoc == userDocs[currentUser]
           given == userDoc.trustGiven
           received == userDoc.trustReceived
           newStatuses ==
              [d \in DOMAIN given \cup DOMAIN received |->
                 [outgoing |-> IF d \in DOMAIN given
                               THEN verifyAttestationSignature(given[d])
                               ELSE NoStatus,
                  incoming |-> IF d \in DOMAIN received
                               THEN verifyAttestationSignature(received[d])
                               ELSE NoStatus]]
       IN  /\ signatureStatuses' = newStatuses
           /\ returned' = [op |-> "verifyAll", userDoc |-> userDoc,
                           statuses |-> newStatuses]
    /\ thrown' = NoThrow
    /\ UNCHANGED <<walletState, userDocs, appVars>>

(***************************************************************************)
(* Specification of the wallet operations                                  *)
(***************************************************************************)
(***************************************************************************)
(* Opinion graph (useOpinionGraph.ts): one OpinionGraphDoc shared by the   *)
(* users, each of whom runs the hook with their own DID, keys and display  *)
(* name.  createAssumption and setVote suspend in signEntity between the   *)
(* read of the document and the change callback.                           *)
(***************************************************************************)
GraphUsers == {"alice", "bob"}

\* The hook's props of user u.
PublicKeyProp(u) == base64Encode(PublicOf(PrivateKey(u)))

DisplayNameProp(u) == u

\* Sentences a caller passes; " " is blank, and trim() makes it empty.
Blank == " "

trim(str) == IF str = Blank THEN "" ELSE str

CreateSentences == {"s1"}

UpdateSentences == {"s1", "s2", Blank}

TagNameChoices == {<<>>, <<"t1">>}

VoteValues == {"green", "red"}

DisplayNameUpdates == {"", "Al"}

\* An absent profile of the identities map.
NoProfile == [publicKey |-> NoKey, displayName |-> ""]

\* createEmptyDoc for the identity of the board's creator.
createEmptyDoc(u) ==
    [identities |-> [d \in {UserDid(u)} |->
                        [publicKey |-> PublicKeyProp(u),
                         displayName |-> DisplayNameProp(u)]],
     assumptions |-> EmptyMap, votes |-> EmptyMap, tags |-> EmptyMap,
     edits |-> EmptyMap, lastModified |-> now]

InitGraph ==
    /\ graph = createEmptyDoc("alice")
    /\ graphNextId = 1
    /\ graphCalls = [s \in 1..MaxGraphInflight |-> Idle]

\* Lines 43-62.
ensureIdentityProfile(d, u) ==
    LET did == UserDid(u)
        profile == IF did \in DOMAIN d.identities THEN d.identities[did]
                   ELSE NoProfile
    IN  [d EXCEPT !.identities = MapPut(@, did,
            [profile EXCEPT
                !.publicKey = IF @ = NoKey THEN PublicKeyProp(u) ELSE @,
                !.displayName = IF @ = "" THEN DisplayNameProp(u) ELSE @])]

\* The ids of the tags of d with the (normalized) name.
TagsNamed(d, name) == {t \in DOMAIN d.tags : d.tags[t].name = name}

\* Lines 64-81, applied to each name in turn: the document with the new
\* tags, the ids found or created, and the next free id.
RECURSIVE findOrCreateTags(_, _, _, _)
findOrCreateTags(d, u, names, free) ==
    IF names = <<>> THEN [doc |-> d, tagIds |-> <<>>, free |-> free]
    ELSE LET name == trim(Head(names))
             existing == TagsNamed(d, name)
             tagId == IF existing # {}
                      THEN CHOOSE t \in existing :
                              \A o \in existing : t <= o
                      ELSE free
             d1 == IF name = "" \/ existing # {} THEN d
                   ELSE [d EXCEPT !.tags = MapPut(@, free,
                           [id |-> free, name |-> name,
                            createdBy |-> UserDid(u), createdAt |-> now])]
             free1 == IF name = "" \/ existing # {} THEN free ELSE free + 1
             rest == findOrCreateTags(d1, u, Tail(names), free1)
         IN  IF name = "" THEN rest
             ELSE [rest EXCEPT !.tagIds = <<tagId>> \o @]

\* displayName || doc.identities?.[currentUserDid]?.displayName || 'Anonymous'
NameOf(u, d) ==
    IF DisplayNameProp(u) # "" THEN DisplayNameProp(u)
    ELSE IF UserDid(u) \in DOMAIN d.identities
            /\ d.identities[UserDid(u)].displayName # ""
         THEN d.identities[UserDid(u)].displayName
         ELSE "Anonymous"

\* An entity with the signature its author's key gives for it.
Signed(entity, u) ==
    [f \in DOMAIN entity \cup {"signature"} |->
        IF f = "signature" THEN signEntity(entity, PrivateKey(u))
        ELSE entity[f]]

GraphIdle(s) ==
    /\ graphCalls[s].op = "idle"
    /\ \A r \in 1..(s - 1) : graphCalls[r].op # "idle"

\* What a graph step leaves alone.
GraphFrame == UNCHANGED <<walletState, trustVars, shell>> /\ thrown' = NoThrow

\* Lines 86-137: the tags are created in a first change, the assumption
\* and its create entry are built and the call suspends in signEntity.
createAssumptionBegin(s, u, sentence, tagNames) ==
    /\ GraphIdle(s)
    /\ graphNextId + Len(tagNames) + 1 <= MaxGraphIds
    /\ LET found == findOrCreateTags(ensureIdentityProfile(graph, u), u,
                                     tagNames, graphNextId)
           id == found.free
           editId == found.free + 1
           creatorName == NameOf(u, graph)
           assumptionData ==
              [id |-> id, sentence |-> sentence, createdBy |-> UserDid(u),
               creatorName |-> creatorName, createdAt |-> now,
               updatedAt |-> now, tagIds |-> found.tagIds,
               voteIds |-> <<>>, editLogIds |-> <<editId>>]
           editData ==
              [id |-> editId, assumptionId |-> id, editorDid |-> UserDid(u),
               editorName |-> creatorName, type |-> "create",
               previousSentence |-> "", newSentence |-> sentence,
               previousTags |-> <<>>, newTags |-> tagNames,
               createdAt |-> now]
       IN  /\ graph' = found.doc
           /\ graphNextId' = found.free + 2
           /\ graphCalls' = [graphCalls EXCEPT ![s] =
                 [op |-> "createAssumption", user |-> u,
                  assumptionData |-> Signed(assumptionData, u),
                  editData |-> Signed(editData, u)]]
           /\ returned' = [op |-> "createAssumptionBegin", user |-> u]
    /\ GraphFrame

\* Lines 139-145.
createAssumptionCommit(s) ==
    /\ graphCalls[s].op = "createAssumption"
    /\ LET c == graphCalls[s]
       IN  /\ graph' = [graph EXCEPT
                 !.edits = MapPut(@, c.editData.id, c.editData),
                 !.assumptions = MapPut(@, c.assumptionData.id,
                                        c.assumptionData),
                 !.lastModified = now]
           /\ returned' = [op |-> "createAssumption", user |-> c.user,
                           assumptionId |-> c.assumptionData.id]
    /\ graphCalls' = [graphCalls EXCEPT ![s] = Idle]
    /\ UNCHANGED graphNextId
    /\ GraphFrame

\* The elements of a sequence as a set.
Range(seq) == {seq[i] : i \in 1..Len(seq)}

\* [...ids].sort().join('|') of two lists are equal.
SameSorted(a, b) ==
    /\ Len(a) = Len(b)
    /\ \A x \in Range(a) \cup Range(b) :
          Cardinality({i \in 1..Len(a) : a[i] = x})
             = Cardinality({i \in 1..Len(b) : b[i] = x})

Keep(seq, S) == SelectSeq(seq, LAMBDA x : x \in S)

\* Lines 178-186: remove the ids no longer wanted, push the new ones.
MergeTagIds(tagIds, newTagIds) ==
    Keep(tagIds, Range(newTagIds))
        \o Keep(newTagIds, Range(newTagIds) \ Range(tagIds))

\* Lines 152-213: the change callback of updateAssumption, as a function
\* of the document; free is the next id generateId() gives.
updateAssumptionDoc(d0, u, assumptionId, newSentence, tagNames, free) ==
    LET d1 == ensureIdentityProfile(d0, u)
    IN  IF assumptionId \notin DOMAIN d1.assumptions
        THEN [doc |-> d1, free |-> free]
        ELSE
        LET found == findOrCreateTags(d1, u, tagNames, free)
            d == found.doc
            assumption == d.assumptions[assumptionId]
            trimmed == trim(newSentence)
            sentenceChanged == trimmed # "" /\ trimmed # assumption.sentence
            tagsChanged == ~SameSorted(assumption.tagIds, found.tagIds)
            editId == found.free
            entry ==
               [id |-> editId, assumptionId |-> assumptionId,
                editorDid |-> UserDid(u),
                editorName |-> IF d.identities[UserDid(u)].displayName # ""
                               THEN d.identities[UserDid(u)].displayName
                               ELSE "Anonymous",
                type |-> "edit",
                previousSentence |-> assumption.sentence,
                newSentence |-> trimmed,
                previousTags |->
                   [i \in 1..Len(Keep(assumption.tagIds, DOMAIN d.tags)) |->
                       d.tags[Keep(assumption.tagIds, DOMAIN d.tags)[i]].name],
                newTags |-> tagNames, createdAt |-> now,
                signature |-> NoSignature]
        IN  IF ~sentenceChanged /\ ~tagsChanged
            THEN [doc |-> d, free |-> found.free]
            ELSE [doc |-> [d EXCEPT
                     !.edits = MapPut(@, editId, entry),
                     !.assumptions[assumptionId] =
                        [@ EXCEPT
                           !.tagIds = MergeTagIds(@, found.tagIds),
                           !.editLogIds = Append(@, editId),
                           !.sentence = trimmed,
                           !.updatedAt = now],
                     !.lastModified = now],
                  free |-> found.free + 1]

\* The assumption ids a caller passes: those there are and one there is not.
NoSuchAssumption == 0

AssumptionIdChoices == DOMAIN graph.assumptions \cup {NoSuchAssumption}

updateAssumption(u, assumptionId, newSentence, tagNames) ==
    /\ graphNextId + Len(tagNames) <= MaxGraphIds
    /\ LET r == updateAssumptionDoc(graph, u, assumptionId, newSentence,
                                    tagNames, graphNextId)
       IN  /\ graph' = r.doc
           /\ graphNextId' = r.free
    /\ returned' = [op |-> "updateAssumption", user |-> u,
                    assumptionId |-> assumptionId,
                    newSentence |-> newSentence, tagNames |-> tagNames]
    /\ UNCHANGED graphCalls
    /\ GraphFrame

\* Lines 219-233 without the deletion of the votes.
deleteAssumptionDoc_KeepsVotes(d, assumptionId) ==
    IF assumptionId \notin DOMAIN d.assumptions THEN d
    ELSE [d EXCEPT !.assumptions = MapDelete(@, assumptionId),
                   !.lastModified = now]

\* Lines 219-233.
deleteAssumptionDoc(d, assumptionId) ==
    IF assumptionId \notin DOMAIN d.assumptions THEN d
    ELSE [d EXCEPT
            !.votes = [v \in DOMAIN @
                          \ Range(d.assumptions[assumptionId].voteIds) |->
                         @[v]],
            !.assumptions = MapDelete(@, assumptionId),
            !.lastModified = now]

deleteAssumption(u, assumptionId) ==
    /\ graph' = deleteAssumptionDoc(graph, assumptionId)
    /\ returned' = [op |-> "deleteAssumption", user |-> u,
                    assumptionId |-> assumptionId,
                    deleted |-> DOMAIN graph.votes \ DOMAIN graph'.votes]
    /\ UNCHANGED <<graphNextId, graphCalls>>
    /\ GraphFrame

\* The positions of the votes of u in the voteIds of an assumption.
OwnVotePositions(d, u, assumptionId) ==
    LET voteIds == d.assumptions[assumptionId].voteIds
    IN  {i \in 1..Len(voteIds) :
            /\ voteIds[i] \in DOMAIN d.votes
            /\ d.votes[voteIds[i]].voterDid = UserDid(u)}

Min(S) == CHOOSE x \in S : \A y \in S : x <= y

\* Lines 239-309: the call reads the document, finds the caller's vote on
\* the assumption (or none), builds the vote and suspends in signEntity.
setVoteBegin(s, u, assumptionId, value) ==
    /\ GraphIdle(s)
    /\ assumptionId \in DOMAIN graph.assumptions
    /\ LET own == OwnVotePositions(graph, u, assumptionId)
           voterName == NameOf(u, graph)
       IN  IF own # {}
           THEN LET existingVoteId ==
                       graph.assumptions[assumptionId].voteIds[Min(own)]
                    updatedVoteData ==
                       [id |-> existingVoteId,
                        assumptionId |-> assumptionId,
                        voterDid |-> UserDid(u), voterName |-> voterName,
                        value |-> value,
                        createdAt |-> graph.votes[existingVoteId].createdAt,
                        updatedAt |-> now]
                IN  /\ graphCalls' = [graphCalls EXCEPT ![s] =
                          [op |-> "setVote", user |-> u, existing |-> TRUE,
                           assumptionId |-> assumptionId,
                           voteData |-> Signed(updatedVoteData, u)]]
                    /\ UNCHANGED graphNextId
           ELSE LET voteData ==
                       [id |-> graphNextId, assumptionId |-> assumptionId,
                        voterDid |-> UserDid(u), voterName |-> voterName,
                        value |-> value, createdAt |-> now,
                        updatedAt |-> now]
                IN  /\ graphNextId <= MaxGraphIds
                    /\ graphCalls' = [graphCalls EXCEPT ![s] =
                          [op |-> "setVote", user |-> u, existing |-> FALSE,
                           assumptionId |-> assumptionId,
                           voteData |-> Signed(voteData, u)]]
                    /\ graphNextId' = graphNextId + 1
    /\ returned' = [op |-> "setVoteBegin", user |-> u]
    /\ UNCHANGED graph
    /\ GraphFrame

\* A record with a field set, added if it is not there.
WithField(r, field, value) ==
    [f \in DOMAIN r \cup {field} |-> IF f = field THEN value ELSE r[f]]

WithoutField(r, field) == [f \in DOMAIN r \ {field} |-> r[f]]

\* Lines 276-288 and 311-319: the change callback of setVote for the call
\* record c.
setVoteChange(d0, c) ==
    LET d == ensureIdentityProfile(d0, c.user)
        data == c.voteData
    IN  IF c.existing
        THEN [IF data.id \in DOMAIN d.votes
              THEN [d EXCEPT !.votes[data.id] =
                      WithField(WithField(WithField(WithField(@,
                         "value", data.value),
                         "voterName", data.voterName),
                         "updatedAt", data.updatedAt),
                         "signature", data.signature)]
              ELSE d
              EXCEPT !.lastModified = now]
        ELSE IF c.assumptionId \notin DOMAIN d.assumptions THEN d
             ELSE [d EXCEPT
                     !.votes = MapPut(@, data.id, data),
                     !.assumptions[c.assumptionId].voteIds =
                        Append(@, data.id),
                     !.lastModified = now]

setVoteCommit(s) ==
    /\ graphCalls[s].op = "setVote"
    /\ graph' = setVoteChange(graph, graphCalls[s])
    /\ returned' = [op |-> "setVote", user |-> graphCalls[s].user,
                    assumptionId |-> graphCalls[s].assumptionId,
                    existing |-> graphCalls[s].existing]
    /\ graphCalls' = [graphCalls EXCEPT ![s] = Idle]
    /\ UNCHANGED graphNextId
    /\ GraphFrame

\* A sequence without its element at position i.
RemoveAt(seq, i) == SubSeq(seq, 1, i - 1) \o SubSeq(seq, i + 1, Len(seq))

\* Lines 326-344.
removeVoteDoc(d, u, assumptionId) ==
    IF assumptionId \notin DOMAIN d.assumptions THEN d
    ELSE LET own == OwnVotePositions(d, u, assumptionId)
         IN  [IF own = {} THEN d
              ELSE [d EXCEPT
                      !.votes = MapDelete(@,
                         d.assumptions[assumptionId].voteIds[Min(own)]),
                      !.assumptions[assumptionId].voteIds =
                         RemoveAt(@, Min(own))]
              EXCEPT !.lastModified = now]

removeVote(u, assumptionId) ==
    /\ graph' = removeVoteDoc(graph, u, assumptionId)
    /\ returned' = [op |-> "removeVote", user |-> u,
                    assumptionId |-> assumptionId]
    /\ UNCHANGED <<graphNextId, graphCalls>>
    /\ GraphFrame

\* Lines 376-386.
addTagToAssumptionDoc(d, assumptionId, tagId) ==
    IF assumptionId \notin DOMAIN d.assumptions \/ tagId \notin DOMAIN d.tags
    THEN d
    ELSE [d EXCEPT
            !.assumptions[assumptionId].tagIds =
               IF tagId \in Range(@) THEN @ ELSE Append(@, tagId),
            !.lastModified = now]

addTagToAssumption(u, assumptionId, tagId) ==
    /\ graph' = addTagToAssumptionDoc(graph, assumptionId, tagId)
    /\ returned' = [op |-> "addTagToAssumption", user |-> u,
                    assumptionId |-> assumptionId, tagId |-> tagId]
    /\ UNCHANGED <<graphNextId, graphCalls>>
    /\ GraphFrame

\* Lines 461-489: a name field of an entity of the current user is set to
\* the new display name, or deleted when that is empty.
Rename(entities, whose, did, field, displayName) ==
    [e \in DOMAIN entities |->
        IF entities[e][whose] # did THEN entities[e]
        ELSE IF displayName = "" THEN WithoutField(entities[e], field)
             ELSE WithField(entities[e], field, displayName)]

\* Lines 444-501, for an update of the display name.
updateIdentityDoc(d0, u, displayName) ==
    LET d == ensureIdentityProfile(d0, u)
        did == UserDid(u)
    IN  [d EXCEPT
           !.identities[did].displayName = displayName,
           !.votes = Rename(@, "voterDid", did, "voterName", displayName),
           !.assumptions =
              Rename(@, "createdBy", did, "creatorName", displayName),
           !.edits = Rename(@, "editorDid", did, "editorName", displayName),
           !.lastModified = now]

updateIdentity(u, displayName) ==
    /\ graph' = updateIdentityDoc(graph, u, displayName)
    /\ returned' = [op |-> "updateIdentity", user |-> u,
                    displayName |-> displayName]
    /\ UNCHANGED <<graphNextId, graphCalls>>
    /\ GraphFrame

\* Voting: the operations on assumptions and their votes.
NextVotes ==
    \/ \E s \in 1..MaxGraphInflight, u \in GraphUsers,
          sentence \in CreateSentences, tagNames \in TagNameChoices :
          createAssumptionBegin(s, u, sentence, tagNames)
    \/ \E s \in 1..MaxGraphInflight : createAssumptionCommit(s)
    \/ \E u \in GraphUsers, a \in AssumptionIdChoices :
          deleteAssumption(u, a)
    \/ \E s \in 1..MaxGraphInflight, u \in GraphUsers,
          a \in AssumptionIdChoices, value \in VoteValues :
          setVoteBegin(s, u, a, value)
    \/ \E s \in 1..MaxGraphInflight : setVoteCommit(s)
    \/ \E u \in GraphUsers, a \in AssumptionIdChoices : removeVote(u, a)

\* Editing: the operations that write to stored entities.
NextGraph ==
    \/ \E s \in 1..MaxGraphInflight, u \in GraphUsers,
          sentence \in CreateSentences, tagNames \in TagNameChoices :
          createAssumptionBegin(s, u, sentence, tagNames)
    \/ \E s \in 1..MaxGraphInflight : createAssumptionCommit(s)
    \/ \E u \in GraphUsers, a \in AssumptionIdChoices,
          sentence \in UpdateSentences, tagNames \in TagNameChoices :
          updateAssumption(u, a, sentence, tagNames)
    \/ \E s \in 1..MaxGraphInflight, u \in GraphUsers,
          a \in AssumptionIdChoices, value \in VoteValues :
          setVoteBegin(s, u, a, value)
    \/ \E s \in 1..MaxGraphInflight : setVoteCommit(s)
    \/ \E u \in GraphUsers, a \in AssumptionIdChoices : removeVote(u, a)
    \/ \E u \in GraphUsers, a \in AssumptionIdChoices,
          t \in DOMAIN graph.tags : addTagToAssumption(u, a, t)
    \/ \E u \in GraphUsers, displayName \in DisplayNameUpdates :
          updateIdentity(u, displayName)

(***************************************************************************)
(* QR codes (QRScannerModal): a text is the sequence of its characters;    *)
(* the scheme and path 'narrative://verify/', a DID and a parameter name   *)
(* are each written as one symbol (none of them holds a '?', '&', '=',     *)
(* '+' or '%').                                                            *)
(***************************************************************************)
QrPrefix == "narrative://verify/"

\* The characters of the optional values: a letter, the percent sign, two
\* hexadecimal digits and the space.
QrChars == {"x", "%", "2", "5", " "}

HexDigits == {"2", "5"}

\* The character with the code the two hexadecimal digits give.
HexChar(a, b) ==
    IF a = "2" /\ b = "2" THEN "\""
    ELSE IF a = "2" /\ b = "5" THEN "%"
    ELSE IF a = "5" /\ b = "2" THEN "R"
    ELSE "U"

\* An optional string argument: undefined, or a text.
Undefined == [defined |-> FALSE, text |-> <<>>]

Str(text) == [defined |-> TRUE, text |-> text]

\* A string is truthy when it is defined and not empty.
Truthy(opt) == opt.defined /\ opt.text # <<>>

\* URLSearchParams.toString() of a value (application/x-www-form-urlencoded
\* serialisation): a space becomes '+', '%' becomes '%25'.
RECURSIVE formEncode(_)
formEncode(text) ==
    IF text = <<>> THEN <<>>
    ELSE (IF Head(text) = " " THEN <<"+">>
          ELSE IF Head(text) = "%" THEN <<"%", "2", "5">>
          ELSE <<Head(text)>>) \o formEncode(Tail(text))

StartsEscape(text) ==
    /\ Len(text) >= 3
    /\ text[1] = "%"
    /\ text[2] \in HexDigits
    /\ text[3] \in HexDigits

\* The decoding URLSearchParams applies to a name or value it parses: '+'
\* is a space, a well-formed escape is decoded, any other '%' is kept.
RECURSIVE formDecode(_)
formDecode(text) ==
    IF text = <<>> THEN <<>>
    ELSE IF StartsEscape(text)
         THEN <<HexChar(text[2], text[3])>>
                 \o formDecode(SubSeq(text, 4, Len(text)))
         ELSE (IF Head(text) = "+" THEN <<" ">> ELSE <<Head(text)>>)
                 \o formDecode(Tail(text))

\* decodeURIComponent: a well-formed escape is decoded and a '%' that
\* starts none makes it throw (URIError).
RECURSIVE decodeURIComponent(_)
decodeURIComponent(text) ==
    IF text = <<>> THEN [threw |-> FALSE, text |-> <<>>]
    ELSE IF StartsEscape(text)
         THEN LET rest == decodeURIComponent(SubSeq(text, 4, Len(text)))
              IN  [rest EXCEPT
                     !.text = <<HexChar(text[2], text[3])>> \o @]
         ELSE IF Head(text) = "%" THEN [threw |-> TRUE, text |-> <<>>]
              ELSE LET rest == decodeURIComponent(Tail(text))
                   IN  [rest EXCEPT !.text = <<Head(text)>> \o @]

\* Lines 436-446 of the test file.
generateQRCode(did, userDocUrl, name) ==
    LET userDocPair == IF Truthy(userDocUrl)
                       THEN <<"userDoc", "=">> \o formEncode(userDocUrl.text)
                       ELSE <<>>
        namePair == IF Truthy(name)
                    THEN <<"name", "=">> \o formEncode(name.text)
                    ELSE <<>>
        queryString == IF userDocPair # <<>> /\ namePair # <<>>
                       THEN userDocPair \o <<"&">> \o namePair
                       ELSE userDocPair \o namePair
    IN  IF queryString # <<>>
        THEN <<QrPrefix, did, "?">> \o queryString
        ELSE <<QrPrefix, did>>

\* The position of the first c in the text, or 0.
IndexOf(text, c) ==
    IF \E i \in 1..Len(text) : text[i] = c
    THEN CHOOSE i \in 1..Len(text) :
            text[i] = c /\ \A j \in 1..(i - 1) : text[j] # c
    ELSE 0

\* text.split(c)
RECURSIVE Split(_, _)
Split(text, c) ==
    LET i == IndexOf(text, c)
    IN  IF i = 0 THEN <<text>>
        ELSE <<SubSeq(text, 1, i - 1)>>
                \o Split(SubSeq(text, i + 1, Len(text)), c)

\* new URLSearchParams(query).get(key): the decoded value of the first
\* pair with the name, or null.
NoParam == [found |-> FALSE, text |-> <<>>]

URLSearchParamsGet(query, key) ==
    LET q == IF query # <<>> /\ Head(query) = "?" THEN Tail(query) ELSE query
        pairs == SelectSeq(Split(q, "&"), LAMBDA p : p # <<>>)
        NameOfPair(p) == formDecode(IF IndexOf(p, "=") = 0 THEN p
                                    ELSE SubSeq(p, 1, IndexOf(p, "=") - 1))
        ValueOfPair(p) == formDecode(IF IndexOf(p, "=") = 0 THEN <<>>
                                     ELSE SubSeq(p, IndexOf(p, "=") + 1,
                                                 Len(p)))
        hits == {i \in 1..Len(pairs) : NameOfPair(pairs[i]) = <<key>>}
    IN  IF hits = {} THEN NoParam
        ELSE [found |-> TRUE, text |-> ValueOfPair(pairs[Min(hits)])]

\* Lines 408-431 of the test file: value.match(/narrative:\/\/verify\/
\* ([^?]+)(\?.*)?/) and the two parameters.
parseQRCode(value) ==
    LET q == IndexOf(value, "?")
        didPart == IF q = 0 THEN Tail(value) ELSE SubSeq(value, 2, q - 1)
        query == IF q = 0 THEN <<>> ELSE SubSeq(value, q, Len(value))
        encodedUrl == URLSearchParamsGet(query, "userDoc")
        encodedName == URLSearchParamsGet(query, "name")
        url == decodeURIComponent(encodedUrl.text)
        nm == decodeURIComponent(encodedName.text)
        hasUrl == query # <<>> /\ encodedUrl.found /\ encodedUrl.text # <<>>
        hasName == query # <<>> /\ encodedName.found
                      /\ encodedName.text # <<>>
    IN  IF value = <<>> \/ Head(value) # QrPrefix \/ didPart = <<>>
        THEN [isNull |-> TRUE, threw |-> FALSE, did |-> <<>>,
              userDocUrl |-> Undefined, name |-> Undefined]
        ELSE IF (hasUrl /\ url.threw) \/ (hasName /\ nm.threw)
             THEN [isNull |-> FALSE, threw |-> TRUE, did |-> <<>>,
                   userDocUrl |-> Undefined, name |-> Undefined]
             ELSE [isNull |-> FALSE, threw |-> FALSE, did |-> didPart,
                   userDocUrl |-> IF hasUrl THEN Str(url.text)
                                  ELSE Undefined,
                   name |-> IF hasName THEN Str(nm.text) ELSE Undefined]

\* The scan callback of QRScannerModal (part_003:544-555):
\* decodedText.match(/narrative:\/\/verify\/(.+)/), did = match[1].
NoMatch == [matched |-> FALSE, did |-> <<>>]

scanCallback(decodedText) ==
    IF decodedText # <<>> /\ Head(decodedText) = QrPrefix
          /\ Tail(decodedText) # <<>>
    THEN [matched |-> TRUE, did |-> Tail(decodedText)]
    ELSE NoMatch

(***************************************************************************)
(* AppShell                                                                *)
(***************************************************************************)
\* Max retry attempts for document loading.
MAX_RETRY_ATTEMPTS == 3

\* No document id: null and the empty string are both falsy in the source.
NoDocId == ""

\* The document ids a URL hash or the storage can hold: two ids of valid
\* format and one that isValidAutomergeUrl rejects.  A load of an id of
\* valid format resolves or fails (timeout, empty document) as the
\* network decides.
ValidDocIds == {"docA", "docB"}

InvalidDocId == "not-a-url"

DocIdChoices == ValidDocIds \cup {InvalidDocId}

\* The id of the document repo.create makes.
NewDocId == "docNew"

isValidAutomergeUrl(docId) == docId \in ValidDocIds

NoLoadError == "none"

LoadErrors == {"timeout", "empty"}

InvalidFormatError == "invalid"

NoPending == [active |-> FALSE, docIdToUse |-> NoDocId, urlDocId |-> NoDocId]

\* The component's state right after useState, for a page opened with a
\* URL hash and a stored document id.  attempts counts the repo.find calls
\* of this page instance.
FreshShell(urlDocId, savedDocId, mounted) ==
    [mounted |-> mounted, urlDocId |-> urlDocId, savedDocId |-> savedDocId,
     documentId |-> NoDocId, isInitializing |-> TRUE,
     loadError |-> NoLoadError, retryCount |-> 0, failedDocId |-> NoDocId,
     pending |-> NoPending, attempts |-> 0]

InitShell == shell = FreshShell(NoDocId, NoDocId, FALSE)

\* initializeDocument up to `await Promise.race([repo.find(..), timeout])`,
\* for a saved identity with a real DID: an id of invalid format sets the
\* error and clears the storage, an id of valid format starts a load, and
\* without an id a new document is created.
initializeDocument(sh) ==
    LET docIdToUse == IF sh.urlDocId # NoDocId THEN sh.urlDocId
                      ELSE sh.savedDocId
    IN  IF docIdToUse # NoDocId
        THEN IF ~isValidAutomergeUrl(docIdToUse)
             THEN [sh EXCEPT !.loadError = InvalidFormatError,
                             !.savedDocId = NoDocId,
                             !.isInitializing = FALSE]
             ELSE [sh EXCEPT !.pending = [active |-> TRUE,
                                          docIdToUse |-> docIdToUse,
                                          urlDocId |-> sh.urlDocId],
                             !.attempts = @ + 1]
        ELSE [sh EXCEPT !.savedDocId = NewDocId, !.urlDocId = NewDocId,
                        !.documentId = NewDocId, !.isInitializing = FALSE]

\* A step of AppShell: the step and the state it started from are kept in
\* returned.
ShellStep(op, sh) ==
    /\ shell' = sh
    /\ returned' = [op |-> op, before |-> shell]
    /\ thrown' = NoThrow
    /\ UNCHANGED <<walletState, trustVars, graph, graphNextId, graphCalls>>

\* The page is opened: the mount effect runs initializeDocument.
mount(urlDocId, savedDocId) ==
    /\ ~shell.mounted
    /\ ShellStep("mount",
                 initializeDocument(FreshShell(urlDocId, savedDocId, TRUE)))

\* Lines 313-335: repo.find resolved with a document.
loadSucceeds ==
    /\ shell.pending.active
    /\ LET docIdToUse == shell.pending.docIdToUse
       IN  ShellStep("loadSucceeds",
              [shell EXCEPT !.documentId = docIdToUse,
                            !.savedDocId = docIdToUse,
                            !.urlDocId = IF shell.pending.urlDocId = NoDocId
                                         THEN docIdToUse ELSE @,
                            !.retryCount = 0,
                            !.isInitializing = FALSE,
                            !.pending = NoPending])

\* Lines 336-354: the timeout won the race, or the handle has no document.
loadFails(error) ==
    /\ shell.pending.active
    /\ ShellStep("loadFails",
          [shell EXCEPT !.failedDocId = shell.pending.docIdToUse,
                        !.loadError = error,
                        !.isInitializing = FALSE,
                        !.pending = NoPending])

\* The error screen is rendered.
ErrorScreen(sh) ==
    sh.mounted /\ ~sh.isInitializing /\ sh.loadError # NoLoadError

\* The retry button is rendered.
canRetry(sh) ==
    sh.failedDocId # NoDocId /\ sh.retryCount < MAX_RETRY_ATTEMPTS - 1

\* A click on 'Erneut versuchen'.
handleRetry ==
    /\ ErrorScreen(shell)
    /\ canRetry(shell)
    /\ shell.failedDocId # NoDocId
    /\ shell.retryCount < MAX_RETRY_ATTEMPTS
    /\ ShellStep("handleRetry",
          initializeDocument([shell EXCEPT !.retryCount = @ + 1,
                                           !.loadError = NoLoadError,
                                           !.isInitializing = TRUE]))

\* The user changes the hash of the open page.
handleHashChange(newDocId) ==
    /\ shell.mounted
    /\ newDocId # shell.urlDocId
    /\ ShellStep("handleHashChange",
          IF newDocId # NoDocId /\ newDocId # shell.documentId
          THEN [shell EXCEPT !.urlDocId = newDocId,
                             !.documentId = newDocId,
                             !.savedDocId = newDocId]
          ELSE [shell EXCEPT !.urlDocId = newDocId])

\* 'Seite neu laden': the page is loaded again with its hash and storage.
reloadPage ==
    /\ ErrorScreen(shell)
    /\ ShellStep("reloadPage",
          initializeDocument(FreshShell(shell.urlDocId, shell.savedDocId,
                                        TRUE)))

\* 'Neues Dokument erstellen': storage and hash are cleared, then reload.
newDocument ==
    /\ ErrorScreen(shell)
    /\ ShellStep("newDocument",
                 initializeDocument(FreshShell(NoDocId, NoDocId, TRUE)))

NextShell ==
    \/ \E u \in DocIdChoices \cup {NoDocId},
          sv \in DocIdChoices \cup {NoDocId} : mount(u, sv)
    \/ loadSucceeds
    \/ \E e \in LoadErrors : loadFails(e)
    \/ handleRetry
    \/ \E n \in DocIdChoices \cup {NoDocId} : handleHashChange(n)
    \/ reloadPage
    \/ newDocument

InitApp == InitGraph /\ InitShell

VoucherIdChoices == DOMAIN vouchers \cup {NoSuchVoucher}

Init == InitWallet /\ InitTrust /\ InitApp

Next ==
    \/ \E u \in Users, r \in AllDids, a \in Amounts, un \in Units,
          e \in ExpiryChoices : createVoucher(u, r, a, un, e)
    \/ \E u \in Users, v \in DOMAIN vouchers : transferVoucherThrow(u, v)
    \/ \E s \in 1..MaxInflight, u \in Users, v \in DOMAIN vouchers,
          t \in AllDids : transferVoucherBegin(s, u, v, t)
    \/ \E s \in 1..MaxInflight : transferVoucherCommit(s)
    \/ \E u \in Validators, v \in DOMAIN vouchers :
          validateVoucherCached(u, v)
    \/ \E u \in Validators, v \in VoucherIdChoices :
          validateVoucherNotFound(u, v)
    \/ \E s \in 1..MaxInflight, u \in Validators, v \in DOMAIN vouchers :
          validateVoucherBegin(s, u, v)
    \/ \E s \in 1..MaxInflight : validateVoucherFinish(s)
    \/ \E d \in TickSteps : Tick(d)

Spec == Init /\ [][Next]_vars

SpecVotes == Init /\ [][NextVotes]_vars

SpecGraph == Init /\ [][NextGraph]_vars

SpecShell == Init /\ [][NextShell]_vars

(***************************************************************************)
(* Properties of the wallet operations                                     *)
(***************************************************************************)
LastOf(seq) == seq[Len(seq)]

ReturnedToIssuer(v) ==
    \E i \in 1..Len(v.transfers) : v.transfers[i].toId = v.issuerId

\* C1: every voucher's currentHolderId is the toId of the last transfer of
\* its ledger, or its initialRecipientId while the ledger is empty.
C1_HolderIsLastRecipient ==
    \A id \in DOMAIN vouchers :
        LET v == vouchers[id]
        IN  v.currentHolderId =
               IF Len(v.transfers) = 0 THEN v.initialRecipientId
               ELSE LastOf(v.transfers).toId

C1_Witness ==
    \E id \in DOMAIN vouchers :
        LET v == vouchers[id]
        IN  /\ Len(v.transfers) >= 1
            /\ v.currentHolderId # v.initialRecipientId
            /\ v.currentHolderId = LastOf(v.transfers).toId

\* C2: the stored status is redeemed exactly when the voucher was issued to
\* its issuer or its ledger holds a transfer to the issuer; a self-issued
\* voucher has redeemedAt = createdAt, and a transfer to the issuer leaves
\* redeemedAt at that transfer's timestamp.
C2_RedeemedExactlyOnReturn ==
    \A id \in DOMAIN vouchers :
        LET v == vouchers[id]
        IN  /\ v.status = "redeemed" <=>
                  (v.initialRecipientId = v.issuerId \/ ReturnedToIssuer(v))
            /\ v.initialRecipientId = v.issuerId => v.redeemedAt = v.createdAt
            /\ \A i \in 1..Len(v.transfers) :
                  /\ v.transfers[i].toId = v.issuerId
                  /\ \A j \in (i + 1)..Len(v.transfers) :
                        v.transfers[j].toId # v.issuerId
                  => v.redeemedAt = v.transfers[i].timestamp

C2_Witness ==
    \E id \in DOMAIN vouchers :
        LET v == vouchers[id]
        IN  /\ v.initialRecipientId # v.issuerId
            /\ ReturnedToIssuer(v)
            /\ v.status = "redeemed"
            /\ v.redeemedAt > v.createdAt

\* C3: once a transfer to the issuer is in the ledger no further transfer
\* is appended, i.e. a transfer to the issuer is always the last entry.
C3_NoTransferAfterReturn ==
    \A id \in DOMAIN vouchers :
        LET v == vouchers[id]
        IN  \A i \in 1..(Len(v.transfers) - 1) :
                v.transfers[i].toId # v.issuerId

NotHolderError == "You are not the current holder of this voucher"

NotActiveError == "Voucher is not active"

C5_NoStaleCachedResult ==
    (returned.op = "validateVoucher" /\ returned.cached) =>
        Len(returned.result.transferSignatureStatuses)
            = Len(vouchers[returned.voucherId].transfers)

CoreFields(v) ==
    <<v.id, v.issuerId, v.amount, v.unit, v.createdAt, v.initialRecipientId,
      v.issuerSignature>>

\* C10: every step leaves each voucher's ledger as it was or appends one
\* transfer to it, and leaves the voucher's core fields as they were.
C10_LedgerAppendOnly ==
    [][\A id \in DOMAIN vouchers :
          /\ id \in DOMAIN vouchers'
          /\ CoreFields(vouchers'[id]) = CoreFields(vouchers[id])
          /\ \/ vouchers'[id].transfers = vouchers[id].transfers
             \/ /\ Len(vouchers'[id].transfers)
                      = Len(vouchers[id].transfers) + 1
                /\ SubSeq(vouchers'[id].transfers, 1,
                          Len(vouchers[id].transfers))
                      = vouchers[id].transfers]_vars

C10_Witness ==
    \E id \in DOMAIN vouchers :
        /\ Len(vouchers[id].transfers) = 2
        /\ vouchers[id].transfers[1].timestamp
              < vouchers[id].transfers[2].timestamp

(***************************************************************************)
(* Writes by other participants.  Every participant of the document can    *)
(* write any of its fields; signatures are the only protection.            *)
(***************************************************************************)
TamperAmounts == {999}

\* A participant overwrites the stored amount of a voucher.
tamperAmount(id, amount) ==
    /\ vouchers[id].amount # amount
    /\ vouchers' = [vouchers EXCEPT ![id].amount = amount]
    /\ Quiet
    /\ UNCHANGED <<identities, now, ticks, nextId, calls, validationCache>>
    /\ UNCHANGED <<trustVars, appVars>>

\* A participant (carol) stores her own public key in the profile of
\* another DID that has none yet.
forgeProfileKey(did) ==
    /\ did # UserDid("carol")
    /\ identities[did].publicKey = NoKey
    /\ identities' = [identities EXCEPT ![did].publicKey =
                         base64Encode(PublicOf(PrivateKey("carol")))]
    /\ Quiet
    /\ UNCHANGED <<vouchers, now, ticks, nextId, calls, validationCache>>
    /\ UNCHANGED <<trustVars, appVars>>

\* A participant (carol) writes a voucher that names another DID as its
\* issuer and herself as the recipient, signed with her own key.
forgeVoucher(issuerId) ==
    /\ issuerId # UserDid("carol")
    /\ Cardinality(DOMAIN vouchers) < MaxVouchers
    /\ vouchers' = MapPut(vouchers, nextId,
          NewVoucher(nextId, issuerId, UserDid("carol"), 100, "coffee", now,
                     NoTime, PrivateKey("carol")))
    /\ nextId' = nextId + 1
    /\ Quiet
    /\ UNCHANGED <<identities, now, ticks, calls, validationCache>>
    /\ UNCHANGED <<trustVars, appVars>>

\* The wallet operations at one instant and the writes by other
\* participants.
NextTamper ==
    \/ \E u \in Users, r \in AllDids, a \in Amounts, un \in Units :
          createVoucher(u, r, a, un, NoTime)
    \/ \E u \in Users, v \in DOMAIN vouchers : transferVoucherThrow(u, v)
    \/ \E s \in 1..MaxInflight, u \in Users, v \in DOMAIN vouchers,
          t \in AllDids : transferVoucherBegin(s, u, v, t)
    \/ \E s \in 1..MaxInflight : transferVoucherCommit(s)
    \/ \E u \in Validators, v \in DOMAIN vouchers :
          validateVoucherCached(u, v)
    \/ \E u \in Validators, v \in VoucherIdChoices :
          validateVoucherNotFound(u, v)
    \/ \E s \in 1..MaxInflight, u \in Validators, v \in DOMAIN vouchers :
          validateVoucherBegin(s, u, v)
    \/ \E s \in 1..MaxInflight : validateVoucherFinish(s)
    \/ \E v \in DOMAIN vouchers, a \in TamperAmounts : tamperAmount(v, a)
    \/ \E d \in AllDids : forgeProfileKey(d)
    \/ \E d \in AllDids : forgeVoucher(d)

SpecTamper == Init /\ [][NextTamper]_vars

(***************************************************************************)
(* Properties of validateVoucher                                           *)
(***************************************************************************)
\* A result validateVoucher has just computed (not served from the cache)
\* for a voucher it found in its snapshot of the document.
FreshResult ==
    /\ returned.op = "validateVoucher"
    /\ ~returned.cached
    /\ returned.result.error = ""

\* The key the resolution order gives for a DID: the profile key stored in
\* the document if there is one, else the key embedded in the DID, else
\* none.
ResolvedKey(did, ids) ==
    IF ids[did].publicKey # NoKey THEN ids[did].publicKey
    ELSE IF extractPublicKeyFromDid(did).ok
         THEN base64Encode(extractPublicKeyFromDid(did).key)
         ELSE NoKey

StoredIssuerPayload(v) ==
    IssuerSignaturePayload(v.id, v.issuerId, v.amount, v.unit, v.createdAt,
                           v.expiresAt, v.initialRecipientId)

\* C6: the issuer status is valid only if the issuer signature verifies
\* under the issuer's resolved key and the payload it signs is the payload
\* rebuilt from the voucher's stored fields.
C6_IssuerValidOnlyIfPayloadMatches ==
    (FreshResult /\ returned.result.issuerSignatureStatus = "valid") =>
        LET v == returned.voucher
            key == ResolvedKey(v.issuerId, returned.identities)
        IN  /\ key # NoKey
            /\ verifyJws(v.issuerSignature, key).valid
            /\ JSONparse(base64urlDecode(v.issuerSignature[2]))
                  = StoredIssuerPayload(v)

AllStatuses(result) ==
    <<result.issuerSignatureStatus>> \o result.transferSignatureStatuses

\* C7: the overall status of every returned result is invalid if any of
\* its statuses is invalid, else unknown if any is unknown, else valid.
C7_OverallStatusAggregates ==
    returned.op = "validateVoucher" =>
        LET all == AllStatuses(returned.result)
            overall == returned.result.overallStatus
        IN  /\ (\E i \in 1..Len(all) : all[i] = "invalid")
                  => overall = "invalid"
            /\ (/\ \A i \in 1..Len(all) : all[i] # "invalid"
                /\ \E i \in 1..Len(all) : all[i] = "unknown")
                  => overall = "unknown"
            /\ (\A i \in 1..Len(all) : all[i] = "valid")
                  => overall = "valid"

C7_Witness ==
    /\ FreshResult
    /\ returned.result.overallStatus = "invalid"
    /\ \E i \in 1..Len(AllStatuses(returned.result)) :
          AllStatuses(returned.result)[i] = "unknown"
    /\ \E i \in 1..Len(AllStatuses(returned.result)) :
          AllStatuses(returned.result)[i] = "valid"

\* C8: a computed result has one transfer status per transfer of the
\* voucher it was computed from, in ledger order: unknown if no key is
\* resolved for the transfer's fromId, else valid or invalid as the
\* transfer's signature verifies under that key or not, whatever the
\* statuses before it.
C8_OneStatusPerTransfer ==
    FreshResult =>
        LET v == returned.voucher
            statuses == returned.result.transferSignatureStatuses
        IN  /\ Len(statuses) = Len(v.transfers)
            /\ \A i \in 1..Len(v.transfers) :
                  LET key == ResolvedKey(v.transfers[i].fromId,
                                         returned.identities)
                  IN  statuses[i] =
                         IF key = NoKey THEN "unknown"
                         ELSE IF verifyJws(v.transfers[i].signature,
                                           key).valid
                              THEN "valid" ELSE "invalid"

C8_Witness ==
    /\ FreshResult
    /\ returned.result.issuerSignatureStatus = "unknown"
    /\ returned.result.transferSignatureStatuses = <<"invalid", "valid">>

\* C9 for vouchers: when no key is resolved for the issuer (for a
\* transfer's sender), the issuer status (that transfer's status) of a
\* computed result is unknown.
C9_VoucherUnknownWithoutKey ==
    FreshResult =>
        LET v == returned.voucher
            ids == returned.identities
        IN  /\ ResolvedKey(v.issuerId, ids) = NoKey
                  => returned.result.issuerSignatureStatus = "unknown"
            /\ \A i \in 1..Len(v.transfers) :
                  ResolvedKey(v.transfers[i].fromId, ids) = NoKey
                  => returned.result.transferSignatureStatuses[i] = "unknown"

(***************************************************************************)
(* Specification of the trust attestations                                 *)
(***************************************************************************)
\* alice writes attestations she gives (signed by her or not signed); any
\* participant but alice writes attestations into her trustReceived, under
\* any truster's DID.
GivenChoices ==
    UNION {Attestations(UserDid("alice"), t, {"alice"}) :
              t \in AllDids \ {UserDid("alice")}}

ReceivedChoices ==
    UNION {Attestations(t, UserDid("alice"), Users \ {"alice"}) :
              t \in AllDids \ {UserDid("alice")}}

NextTrust ==
    \/ \E a \in GivenChoices : writeTrustGiven(currentUser, a)
    \/ \E t \in AllDids : deleteTrustGiven(currentUser, t)
    \/ \E a \in ReceivedChoices : writeTrustReceived(currentUser, a)
    \/ \E t \in AllDids : deleteTrustReceived(currentUser, t)
    \/ \E isOpen \in BOOLEAN : verifyAll(isOpen)

SpecTrust == Init /\ [][NextTrust]_vars

\* C9: an attestation that carries a signature and for whose trusterDid no
\* key is resolved (no stored profile key, no key in the DID) is given the
\* status unknown.
C9_AttestationUnknownWithoutKey ==
    returned.op = "verifyAll" =>
        LET doc == returned.userDoc
            Unresolved(att) ==
               /\ att.signature # NoSignature
               /\ ResolvedKey(att.trusterDid, identities) = NoKey
        IN  /\ \A d \in DOMAIN doc.trustGiven :
                  Unresolved(doc.trustGiven[d])
                  => returned.statuses[d].outgoing = "unknown"
            /\ \A d \in DOMAIN doc.trustReceived :
                  Unresolved(doc.trustReceived[d])
                  => returned.statuses[d].incoming = "unknown"

(***************************************************************************)
(* Properties of the chain of custody                                      *)
(***************************************************************************)
\* The previousSignature a transfer's signature covers.
SignedPreviousSignature(transfer) ==
    JSONparse(base64urlDecode(transfer.signature[2])).previousSignature

\* C11: the previousSignature covered by the signature of transfer i is the
\* signature of transfer i-1, or the issuer signature for the first
\* transfer.
C11_ChainLinked ==
    \A id \in DOMAIN vouchers :
       \A i \in 1..Len(vouchers[id].transfers) :
          SignedPreviousSignature(vouchers[id].transfers[i]) =
             IF i = 1 THEN vouchers[id].issuerSignature
             ELSE vouchers[id].transfers[i - 1].signature

(***************************************************************************)
(* The trust view: CollaboratorsModal builds one row per counterpart of    *)
(* the user document and UserListItem derives the row's badges.            *)
(***************************************************************************)
\* An absent attestation (undefined, falsy).
NoAttestation == [id |-> ""]

outgoingTrust(userDoc, did) ==
    IF did \in DOMAIN userDoc.trustGiven
    THEN userDoc.trustGiven[did] ELSE NoAttestation

incomingTrust(userDoc, did) ==
    IF did \in DOMAIN userDoc.trustReceived
    THEN userDoc.trustReceived[did] ELSE NoAttestation

\* The DIDs the modal shows a row for.
collaborators(userDoc) ==
    ({userDoc.trustGiven[k].trusteeDid : k \in DOMAIN userDoc.trustGiven}
     \cup {userDoc.trustReceived[k].trusterDid :
              k \in DOMAIN userDoc.trustReceived})
    \ {userDoc.did}

hasOutgoingTrust(userDoc, did) == outgoingTrust(userDoc, did) # NoAttestation

hasIncomingTrust(userDoc, did) == incomingTrust(userDoc, did) # NoAttestation

isBidirectional(userDoc, did) ==
    hasOutgoingTrust(userDoc, did) /\ hasIncomingTrust(userDoc, did)

\* The trust badge of a row: Gegenseitig, Du vertraust, Vertraut dir.
TrustBadge(userDoc, did) ==
    IF isBidirectional(userDoc, did) THEN "mutual"
    ELSE IF hasOutgoingTrust(userDoc, did) THEN "outgoing"
    ELSE IF hasIncomingTrust(userDoc, did) THEN "incoming"
    ELSE "none"

\* C12: once the statuses of the shown document are computed, a row's
\* badge counts an attestation as trust only if its status is valid: an
\* outgoing or mutual badge needs a valid outgoing status, an incoming or
\* mutual badge a valid incoming status.
C12_BadgeOnlyForValid ==
    (returned.op = "verifyAll" /\ returned.userDoc = userDocs[currentUser])
    => \A did \in collaborators(userDocs[currentUser]) :
          LET badge == TrustBadge(userDocs[currentUser], did)
          IN  /\ badge \in {"outgoing", "mutual"}
                    => signatureStatuses[did].outgoing = "valid"
              /\ badge \in {"incoming", "mutual"}
                    => signatureStatuses[did].incoming = "valid"

\* C15: every trustGiven entry is stored under its attestation's
\* trusteeDid and every trustReceived entry under its attestation's
\* trusterDid, and a write for a counterpart that has an entry replaces
\* that entry and adds none.  The attestation a write has stored is looked
\* for among the entries of the document after the step.
C15_KeyedByCounterpart ==
    [][/\ \A o \in Users :
             /\ \A k \in DOMAIN userDocs'[o].trustGiven :
                   userDocs'[o].trustGiven[k].trusteeDid = k
             /\ \A k \in DOMAIN userDocs'[o].trustReceived :
                   userDocs'[o].trustReceived[k].trusterDid = k
       /\ \A o \in Users :
             /\ \A k \in DOMAIN userDocs'[o].trustGiven :
                   LET a == userDocs'[o].trustGiven[k]
                   IN  (/\ a.trusteeDid \in DOMAIN userDocs[o].trustGiven
                        /\ userDocs'[o] = addTrustGiven(userDocs[o], a))
                       => /\ DOMAIN userDocs'[o].trustGiven
                                = DOMAIN userDocs[o].trustGiven
                          /\ userDocs'[o].trustGiven[a.trusteeDid] = a
             /\ \A k \in DOMAIN userDocs'[o].trustReceived :
                   LET a == userDocs'[o].trustReceived[k]
                   IN  (/\ a.trusterDid \in DOMAIN userDocs[o].trustReceived
                        /\ userDocs'[o] = addTrustReceived(userDocs[o], a))
                       => /\ DOMAIN userDocs'[o].trustReceived
                                = DOMAIN userDocs[o].trustReceived
                          /\ userDocs'[o].trustReceived[a.trusterDid] = a]_vars

\* Both maps hold an entry for bob, and trustReceived one for carol too.
C15_Witness ==
    LET doc == userDocs[currentUser]
    IN  /\ UserDid("bob") \in DOMAIN doc.trustGiven
        /\ UserDid("bob") \in DOMAIN doc.trustReceived
        /\ doc.trustReceived[UserDid("bob")].level = "endorsed"
        /\ UserDid("carol") \in DOMAIN doc.trustReceived

(***************************************************************************)
(* Specification of the bidirectional trust flow between the users'        *)
(* documents: the truster signs an attestation and stores it in their own  *)
(* trustGiven, writes the copy into the trustee's trustReceived, and can   *)
(* revoke; the trustee can remove what they received.                      *)
(***************************************************************************)
\* User a attests user b: steps 2 and 3 of the flow.
trustUser(a, b) ==
    /\ a # b
    /\ UserDid(b) \notin DOMAIN userDocs[a].trustGiven
    /\ LET attestation ==
              SignedAttestation(TrustAttestation(UserDid(a), UserDid(b),
                                   "verified", now), PrivateKey(a))
       IN  ChangeUserDoc(a, addTrustGiven(userDocs[a], attestation))

\* Step 4 of the flow: a's attestation of b is written into b's document.
writeToTrustee(a, b) ==
    /\ a # b
    /\ UserDid(b) \in DOMAIN userDocs[a].trustGiven
    /\ UserDid(a) \notin DOMAIN userDocs[b].trustReceived
    /\ ChangeUserDoc(b, addTrustReceived(userDocs[b],
                           userDocs[a].trustGiven[UserDid(b)]))

\* User a revokes the trust given to the DID: a change of a's document.
revokeTrust(a, trusteeDid) ==
    /\ trusteeDid \in DOMAIN userDocs[a].trustGiven
    /\ userDocs' = [userDocs EXCEPT
          ![a] = removeTrustGiven(userDocs[a], trusteeDid)]
    /\ returned' = [op |-> "revokeTrust", user |-> a, did |-> trusteeDid]
    /\ thrown' = NoThrow
    /\ UNCHANGED <<walletState, signatureStatuses, appVars>>

NextPair ==
    \/ \E a \in Users, b \in Users : trustUser(a, b)
    \/ \E a \in Users, b \in Users : writeToTrustee(a, b)
    \/ \E a \in Users, d \in AllDids : revokeTrust(a, d)
    \/ \E b \in Users, d \in AllDids : deleteTrustReceived(b, d)

SpecPair == Init /\ [][NextPair]_vars

\* Both directions exist between a and b, each with its copy.
BothAttested(a, b) ==
    /\ UserDid(b) \in DOMAIN userDocs[a].trustGiven
    /\ UserDid(a) \in DOMAIN userDocs[b].trustReceived
    /\ UserDid(a) \in DOMAIN userDocs[b].trustGiven
    /\ UserDid(b) \in DOMAIN userDocs[a].trustReceived

\* C13: once a has attested b and b has attested a, the view of each shows
\* the other as mutual; when a has just revoked the trust given to b, a's
\* view shows b neither as outgoing nor as mutual.
C13_MutualThenRevoked ==
    /\ \A a \in Users : \A b \in Users \ {a} :
          BothAttested(a, b) =>
             /\ TrustBadge(userDocs[a], UserDid(b)) = "mutual"
             /\ TrustBadge(userDocs[b], UserDid(a)) = "mutual"
    /\ returned.op = "revokeTrust" =>
          TrustBadge(userDocs[returned.user], returned.did)
             \notin {"outgoing", "mutual"}

\* alice has just revoked her trust in bob after they were mutual; bob
\* still holds her old attestation.
C13_Witness ==
    /\ returned = [op |-> "revokeTrust", user |-> "alice",
                   did |-> UserDid("bob")]
    /\ UserDid("alice") \in DOMAIN userDocs["bob"].trustReceived
    /\ UserDid("alice") \in DOMAIN userDocs["bob"].trustGiven
    /\ UserDid("bob") \in DOMAIN userDocs["alice"].trustReceived

\* C14: a revocation removes the truster's trustGiven entry for the
\* trustee and changes nothing else: not the truster's other entries, not
\* any trustReceived entry, not any other user's document.
C14_RevokeRemovesOneEntry ==
    [][returned'.op = "revokeTrust" =>
          LET a == returned'.user
              d == returned'.did
          IN  /\ userDocs'[a].trustGiven = MapDelete(userDocs[a].trustGiven, d)
              /\ userDocs'[a].trustReceived = userDocs[a].trustReceived
              /\ \A o \in Users \ {a} : userDocs'[o] = userDocs[o]]_vars

\* bob has just revoked his trust in alice: he keeps his entry for carol
\* and what he received from alice, and alice keeps his old attestation.
C14_Witness ==
    /\ returned = [op |-> "revokeTrust", user |-> "bob",
                   did |-> UserDid("alice")]
    /\ UserDid("carol") \in DOMAIN userDocs["bob"].trustGiven
    /\ UserDid("alice") \in DOMAIN userDocs["bob"].trustReceived
    /\ UserDid("bob") \in DOMAIN userDocs["alice"].trustReceived

(***************************************************************************)
(* Specification of the pure functions of did.ts and signature.ts: an      *)
(* input is drawn and the function is applied to it.                       *)
(***************************************************************************)
SeqsUpTo(S, n) == UNION {[1..k -> S] : k \in 0..n}

JString(s) == [jsonType |-> "string", value |-> s]

\* The values a notes field takes in a stored entity, and in a payload.
StoredNoteValues == {JString("a"), JString("b"), JNull, JNaN}

NoteValues == StoredNoteValues \cup {JUndefined}

\* A payload is JSON-serializable if JSON represents each value exactly.
JsonSerializable(payload) == payload.notes \notin {JNaN, JUndefined}

KeyBytes == {0, 1, 237}

\* JWS inputs: a payload signed by one user, cut or extended to a number
\* of segments, to be verified with the key of a user.
JwsInputs ==
    [op : {"input"}, fn : {"verifyJws"},
     payload : [id : {JString("e1")}, notes : NoteValues],
     signer : Users, verifier : Users, segments : 1..4]

\* The field changes applied to a stored entity before it is verified.
Changes(entity) ==
    {[field |-> "none"], [field |-> "publicKey", value |-> JString("pk2")],
     [field |-> "id", value |-> JString("e2")]}
    \cup {[field |-> "notes", value |-> w] :
             w \in StoredNoteValues \ {entity.notes}}

EntityInputs ==
    UNION {[op : {"input"}, fn : {"verifyEntitySignature"}, entity : {e},
            signer : Users, change : Changes(e)] :
              e \in [id : {JString("e1")}, notes : StoredNoteValues,
                     publicKey : {JString("pk1")},
                     signature : {NoSignature}]}

KeyInputs ==
    [op : {"input"}, fn : {"deriveDidFromPublicKey"},
     publicKey : SeqsUpTo(KeyBytes, KeyLen + 1)]

DidInputs ==
    [op : {"input"}, fn : {"isValidDid"},
     did : [prefix : {"did:key:z", "did:key:1", "did:web:x"},
            body : SeqsUpTo({1, 237, Dash}, KeyLen + 2)]]

MaxQrLen == 3

QrDids == {"did:key:z6MkA", "did:key:z6MkB"}

\* The optional arguments of generateQRCode: undefined, or a text of up to
\* MaxQrLen characters (the empty one included).
QrTexts == {Undefined} \cup {Str(t) : t \in SeqsUpTo(QrChars, MaxQrLen)}

QrUrls == {Undefined, Str(<<"x">>), Str(<<"x", " ">>)}

QrInputs ==
    [op : {"input"}, fn : {"generateQRCode"}, did : QrDids,
     userDocUrl : QrUrls, name : QrTexts]

InitPure ==
    /\ vouchers = EmptyMap
    /\ identities = [d \in AllDids |-> [publicKey |-> NoKey]]
    /\ now = 1
    /\ ticks = 0
    /\ nextId = 1
    /\ calls = [s \in 1..MaxInflight |-> Idle]
    /\ validationCache = [u \in Users |-> EmptyMap]
    /\ returned \in JwsInputs \cup EntityInputs \cup KeyInputs \cup DidInputs
                        \cup QrInputs
    /\ thrown = NoThrow
    /\ InitTrust
    /\ InitApp

\* A JWS cut to its first n segments, or extended by a segment.
Resize(jws, n) ==
    IF n <= Len(jws) THEN SubSeq(jws, 1, n)
    ELSE jws \o [i \in 1..(n - Len(jws)) |-> base64urlEncode(<<>>)]

ApplyPure(result) ==
    /\ returned' = result
    /\ thrown' = NoThrow
    /\ UNCHANGED <<walletState, trustVars, appVars>>

applyVerifyJws ==
    /\ returned.op = "input" /\ returned.fn = "verifyJws"
    /\ LET jws == Resize(signJws(returned.payload,
                                 PrivateKey(returned.signer)),
                         returned.segments)
           publicKeyBase64 ==
              base64Encode(PublicOf(PrivateKey(returned.verifier)))
       IN  ApplyPure([op |-> "verifyJws", input |-> returned, jws |-> jws,
                      result |-> verifyJws(jws, publicKeyBase64)])

applyVerifyEntitySignature ==
    /\ returned.op = "input" /\ returned.fn = "verifyEntitySignature"
    /\ LET priv == PrivateKey(returned.signer)
           stored == [returned.entity EXCEPT
                         !.signature = signEntity(returned.entity, priv)]
           change == returned.change
           entity == IF change.field = "none" THEN stored
                     ELSE [stored EXCEPT ![change.field] = change.value]
       IN  ApplyPure([op |-> "verifyEntitySignature", input |-> returned,
                      stored |-> stored, entity |-> entity,
                      result |-> verifyEntitySignature(entity,
                                    base64Encode(PublicOf(priv)))])

applyDeriveDidFromPublicKey ==
    /\ returned.op = "input" /\ returned.fn = "deriveDidFromPublicKey"
    /\ LET did == deriveDidFromPublicKey(returned.publicKey)
       IN  ApplyPure([op |-> "deriveDidFromPublicKey", input |-> returned,
                      threw |-> FALSE, did |-> did,
                      extracted |-> extractPublicKeyFromDid(did)])

applyIsValidDid ==
    /\ returned.op = "input" /\ returned.fn = "isValidDid"
    /\ ApplyPure([op |-> "isValidDid", input |-> returned,
                  extracted |-> extractPublicKeyFromDid(returned.did),
                  isFakeDid |-> isFakeDid(returned.did),
                  isValidDid |-> isValidDid(returned.did)])

applyGenerateQRCode ==
    /\ returned.op = "input" /\ returned.fn = "generateQRCode"
    /\ LET qrValue == generateQRCode(returned.did, returned.userDocUrl,
                                     returned.name)
       IN  ApplyPure([op |-> "generateQRCode", input |-> returned,
                      qrValue |-> qrValue, parsed |-> parseQRCode(qrValue),
                      scanned |-> scanCallback(qrValue)])

NextPure ==
    \/ applyVerifyJws
    \/ applyVerifyEntitySignature
    \/ applyDeriveDidFromPublicKey
    \/ applyIsValidDid
    \/ applyGenerateQRCode

SpecPure == InitPure /\ [][NextPure]_vars

(***************************************************************************)
(* Properties of the pure functions                                        *)
(***************************************************************************)
\* C16: an entity signed with signEntity and stored with that signature,
\* verified with the signer's key after the value of a field other than
\* signature and publicKey was changed, gives valid = false with the error
\* 'Payload mismatch'; with no such change it verifies as valid.
C16_ChangeGivesPayloadMismatch ==
    returned.op = "verifyEntitySignature" =>
        IF \E f \in DOMAIN returned.entity \ {"signature", "publicKey"} :
              returned.entity[f] # returned.stored[f]
        THEN /\ ~returned.result.valid
             /\ returned.result.error = "Payload mismatch"
        ELSE returned.result.valid

C18_DidRoundTrip ==
    (/\ returned.op = "deriveDidFromPublicKey"
     /\ Len(returned.input.publicKey) = KeyLen)
    => /\ returned.extracted.ok
       /\ returned.extracted.key = returned.input.publicKey

\* A key that begins with the first byte of the multicodec prefix.
C18_Witness ==
    /\ returned.op = "deriveDidFromPublicKey"
    /\ Len(returned.input.publicKey) = KeyLen
    /\ returned.input.publicKey[1] = 237
    /\ returned.extracted.key = returned.input.publicKey

\* C19: extractPublicKeyFromDid fails on a string that does not start with
\* did:key:z and on one whose first two decoded bytes are not 0xED 0x01;
\* isValidDid is true exactly when extractPublicKeyFromDid succeeds and
\* isFakeDid is false.
C19_RejectsAndIsValidDid ==
    returned.op = "isValidDid" =>
        LET did == returned.input.did
        IN  /\ did.prefix # "did:key:z" => ~returned.extracted.ok
            /\ (Len(did.body) < 2 \/ did.body[1] # 237 \/ did.body[2] # 1)
                  => ~returned.extracted.ok
            /\ returned.isValidDid
                  = (returned.extracted.ok /\ ~returned.isFakeDid)

\* A did:key:z string whose second decoded byte is not 0x01.
C19_Witness ==
    /\ returned.op = "isValidDid"
    /\ returned.input.did.prefix = "did:key:z"
    /\ returned.input.did.body = <<237, 237, 1>>
    /\ ~returned.extracted.ok
    /\ ~returned.isValidDid

\* C20: deriveDidFromPublicKey rejects a key whose length is not that of
\* an Ed25519 key.
C20_RejectsOtherLengths ==
    (/\ returned.op = "deriveDidFromPublicKey"
     /\ Len(returned.input.publicKey) # KeyLen)
    => returned.threw

(***************************************************************************)
(* Properties of the validation cache                                      *)
(***************************************************************************)
\* The entry of user u for a voucher id is present and younger than
\* 300000 ms in the state a step starts from.
EntryWithinTtl(u, voucherId) ==
    /\ voucherId \in DOMAIN validationCache[u]
    /\ now - validationCache[u][voucherId].lastValidated < 300000

\* A step in which a call of validateVoucher by u for the id passes the
\* cache check and goes on to recompute: it returns the not-found result or
\* suspends in slot s with its snapshot of the document.
StartsRecompute(u, voucherId) ==
    \/ /\ returned'.op = "validateVoucher"
       /\ returned'.user = u
       /\ returned'.voucherId = voucherId
       /\ ~returned'.cached
       /\ returned'.result.error = "Voucher not found"
    \/ \E s \in 1..MaxInflight :
          /\ calls[s].op = "idle"
          /\ calls'[s].op = "validate"
          /\ calls'[s].user = u
          /\ calls'[s].voucherId = voucherId

\* A step in which validateVoucher returns the cached result.
ReturnsCached(u, voucherId) ==
    /\ returned'.op = "validateVoucher"
    /\ returned'.user = u
    /\ returned'.voucherId = voucherId
    /\ returned'.cached

\* The cached result is served exactly when the entry is within its TTL.
ServedExactlyWithinTtl ==
    \A u \in Users : \A id \in VoucherIdChoices :
        /\ ReturnsCached(u, id) =>
              /\ EntryWithinTtl(u, id)
              /\ returned'.result = validationCache[u][id]
              /\ validationCache' = validationCache
        /\ StartsRecompute(u, id) => ~EntryWithinTtl(u, id)

\* A recomputed result for a voucher found in the document is computed from
\* the document as the call read it, stamped with the time of the call, and
\* is the caller's cache entry when the call returns.
RecomputedAndStored ==
    (returned'.op = "validateVoucher" /\ ~returned'.cached
        /\ returned'.result.error # "Voucher not found") =>
        /\ \E s \in 1..MaxInflight :
              /\ calls[s].op = "validate"
              /\ calls'[s].op = "idle"
              /\ returned'.result =
                    ComputeValidation(calls[s].voucherId, calls[s].voucher,
                                      calls[s].identities,
                                      calls[s].lastValidated)
        /\ returned'.voucherId \in DOMAIN validationCache'[returned'.user]
        /\ validationCache'[returned'.user][returned'.voucherId]
              = returned'.result

\* Every recomputed result, the not-found one included, is the caller's
\* cache entry when the call returns.
EveryRecomputedStored ==
    (returned'.op = "validateVoucher" /\ ~returned'.cached) =>
        /\ returned'.voucherId \in DOMAIN validationCache'[returned'.user]
        /\ validationCache'[returned'.user][returned'.voucherId]
              = returned'.result

VotesOf(d, u, assumptionId) ==
    {v \in DOMAIN d.votes :
        /\ d.votes[v].assumptionId = assumptionId
        /\ d.votes[v].voterDid = UserDid(u)}

\* C22: each assumption has at most one vote per voterDid, after any
\* interleaving of setVote and removeVote calls.
C22_OneVotePerVoter ==
    \A a \in DOMAIN graph.assumptions : \A u \in GraphUsers :
        Cardinality(VotesOf(graph, u, a)) <= 1

\* Every vote of the document belongs to an assumption of the document.
NoOrphanVote ==
    \A v \in DOMAIN graph.votes :
        graph.votes[v].assumptionId \in DOMAIN graph.assumptions

\* C23: a deleteAssumption step removes the assumption and every vote
\* listed in its voteIds, and changes nothing when there is no such
\* assumption; no vote of the document refers to an assumption that is not
\* in the document, before or after any step.
C23_DeleteRemovesVotes ==
    [][/\ NoOrphanVote /\ NoOrphanVote'
       /\ returned'.op = "deleteAssumption" =>
             LET a == returned'.assumptionId
             IN  IF a \in DOMAIN graph.assumptions
                 THEN /\ a \notin DOMAIN graph'.assumptions
                      /\ \A v \in Range(graph.assumptions[a].voteIds) :
                            v \notin DOMAIN graph'.votes
                      /\ \A v \in DOMAIN graph'.votes :
                            graph'.votes[v].assumptionId # a
                 ELSE graph' = graph]_vars

\* An assumption that had votes was deleted and no vote is left.
C23_Witness ==
    /\ returned.op = "deleteAssumption"
    /\ returned.deleted # {}
    /\ returned.assumptionId \notin DOMAIN graph.assumptions
    /\ graph.votes = EmptyMap

\* The user a DID belongs to.
UserOfDid(did) == CHOOSE u \in Users : UserDid(u) = did

\* A stored entity has no signature or verifies under its author's key.
KeepsVerifying(entity, authorDid) ==
    entity.signature # NoSignature =>
        verifyEntitySignature(entity,
            base64Encode(PublicOf(PrivateKey(UserOfDid(authorDid))))).valid

\* C26: every assumption, vote and edit entry stored with a signature
\* verifies under its author's key.
C26_SignedEntitiesKeepVerifying ==
    /\ \A a \in DOMAIN graph.assumptions :
          KeepsVerifying(graph.assumptions[a], graph.assumptions[a].createdBy)
    /\ \A v \in DOMAIN graph.votes :
          KeepsVerifying(graph.votes[v], graph.votes[v].voterDid)
    /\ \A e \in DOMAIN graph.edits :
          KeepsVerifying(graph.edits[e], graph.edits[e].editorDid)

\* C29: an updateAssumption step for a stored assumption leaves the
\* sentence as it was when the new sentence is blank after trimming, never
\* stores an empty sentence, and when it changes neither the sentence nor
\* the tag set it leaves the assumption and the edit log as they were.
C29_BlankSentenceIgnored ==
    [][(returned'.op = "updateAssumption"
          /\ returned'.assumptionId \in DOMAIN graph.assumptions) =>
          LET a == returned'.assumptionId
              before == graph.assumptions[a]
              after == graph'.assumptions[a]
              trimmed == trim(returned'.newSentence)
          IN  /\ trimmed = "" => after.sentence = before.sentence
              /\ before.sentence # "" => after.sentence # ""
              /\ (after.sentence = before.sentence
                    /\ Range(after.tagIds) = Range(before.tagIds)) =>
                    /\ after = before
                    /\ graph'.edits = graph.edits]_vars

(***************************************************************************)
(* Properties of the QR code format                                        *)
(***************************************************************************)
\* C24: parsing the text generateQRCode gives for a did, userDocUrl and
\* name returns that did, userDocUrl and name, and the scan callback's
\* parse of the text gives exactly that did.
C24_QrRoundTrip ==
    returned.op = "generateQRCode" =>
        /\ ~returned.parsed.isNull
        /\ ~returned.parsed.threw
        /\ returned.parsed.did = <<returned.input.did>>
        /\ returned.parsed.userDocUrl = returned.input.userDocUrl
        /\ returned.parsed.name = returned.input.name
        /\ returned.scanned.matched
        /\ returned.scanned.did = <<returned.input.did>>

(***************************************************************************)
(* Properties of the ledger and of key resolution                          *)
(***************************************************************************)
\* C25: in every ledger the fromId of a transfer is the toId of the
\* transfer before it, and of the first the initialRecipientId.
C25_TransferMadeByHolder ==
    \A id \in DOMAIN vouchers :
        LET v == vouchers[id]
        IN  \A i \in 1..Len(v.transfers) :
                v.transfers[i].fromId =
                    IF i = 1 THEN v.initialRecipientId
                    ELSE v.transfers[i - 1].toId

\* The JWS verifies under the public key embedded in the DID.
SignedByKeyOfDid(jws, did) ==
    LET extracted == extractPublicKeyFromDid(did)
    IN  /\ extracted.ok
        /\ verifyJws(jws, base64Encode(extracted.key)).valid

\* C27: a result validateVoucher has computed reports the issuer signature,
\* and the signature of a transfer, as valid only if the signature was made
\* with the private key of the public key embedded in the issuerId, or
\* fromId, DID.
C27_ValidOnlyUnderKeyOfDid ==
    FreshResult =>
        LET v == returned.voucher
            r == returned.result
        IN  /\ r.issuerSignatureStatus = "valid" =>
                  SignedByKeyOfDid(v.issuerSignature, v.issuerId)
            /\ \A i \in 1..Len(r.transferSignatureStatuses) :
                  r.transferSignatureStatuses[i] = "valid" =>
                      SignedByKeyOfDid(v.transfers[i].signature,
                                       v.transfers[i].fromId)


(***************************************************************************)
(* Inbound attestations of the collaborators list                          *)
(***************************************************************************)
\* What a peer can hand to addTrustReceived for alice's document: an
\* attestation of any truster but alice, addressed to any trustee.
InboundChoices ==
    UNION {Attestations(t, e, Users \ {"alice"}) :
              t \in AllDids \ {UserDid("alice")}, e \in AllDids}

NextInbound ==
    \/ \E a \in InboundChoices : writeTrustReceived(currentUser, a)
    \/ \E t \in AllDids : deleteTrustReceived(currentUser, t)
    \/ \E isOpen \in BOOLEAN : verifyAll(isOpen)

SpecInbound == Init /\ [][NextInbound]_vars

\* The signature of an entity verifies under the key embedded in a DID.
EntitySignedByKeyOfDid(entity, did) ==
    LET extracted == extractPublicKeyFromDid(did)
    IN  /\ extracted.ok
        /\ verifyEntitySignature(entity, base64Encode(extracted.key)).valid

\* C28: once the statuses of the shown document are computed, a row of the
\* collaborators list that has an incoming attestation with status valid
\* shows an attestation that names the row's DID as trusterDid, names the
\* owner of the document as trusteeDid and is signed with the key of the
\* row's DID.
C28_ValidInboundIsFromPeerToOwner ==
    (returned.op = "verifyAll" /\ returned.userDoc = userDocs[currentUser])
    => \A did \in collaborators(userDocs[currentUser]) :
          (/\ did \in DOMAIN userDocs[currentUser].trustReceived
           /\ signatureStatuses[did].incoming = "valid")
          => LET shown == userDocs[currentUser].trustReceived[did]
             IN  /\ shown.trusterDid = did
                 /\ shown.trusteeDid = UserDid(currentUser)
                 /\ EntitySignedByKeyOfDid(shown, did)

(***************************************************************************)
(* Properties of AppShell's retries                                        *)
(***************************************************************************)
\* A page instance makes at most MAX_RETRY_ATTEMPTS load attempts.
AtMostMaxAttempts == shell.attempts <= MAX_RETRY_ATTEMPTS

\* A retry happens only while retryCount + 1 < MAX_RETRY_ATTEMPTS and
\* increases retryCount by one; while a load is in flight no error is set.
RetryCountsUp ==
    /\ returned.op = "handleRetry"
          => /\ returned.before.retryCount + 1 < MAX_RETRY_ATTEMPTS
             /\ shell.retryCount = returned.before.retryCount + 1
    /\ shell.pending.active => shell.loadError = NoLoadError

\* A successful load resets retryCount.
SuccessResets == returned.op = "loadSucceeds" => shell.retryCount = 0

\* The error screen of an invalid document-ID format has no retry button.
InvalidFormatOffersNoRetry ==
    (ErrorScreen(shell) /\ shell.loadError = InvalidFormatError)
    => ~canRetry(shell)

\* C30: a page instance makes at most MAX_RETRY_ATTEMPTS (3) load attempts;
\* a retry is made only while retryCount + 1 < 3, increases retryCount by
\* one and clears the error; a successful load resets retryCount to 0; an
\* invalid document-ID format offers no retry.
C30_BoundedRetries ==
    /\ AtMostMaxAttempts
    /\ RetryCountsUp
    /\ SuccessResets
    /\ InvalidFormatOffersNoRetry

====
